---- MODULE Spec2Model ----
(***************************************************************************)
(* Line-oriented input stream of HotSpot (utilities/istream.hpp/.cpp).     *)
(*                                                                         *)
(* The model is of the ASSERT (debug) build: SMALL_SIZE and BIG_SIZE have  *)
(* their DEBUG_ONLY values and a failing assert() aborts the VM, which is  *)
(* recorded in the field `failed` of the stream record.                    *)
(*                                                                         *)
(* The stream object and its BlockInput are one record `st`.  Every        *)
(* member function is an operator from records to records (or to a record  *)
(* holding the new stream and the returned value); every public operation  *)
(* is one action.  Bytes are the strings "a", "b", LF, CR, NUL; a byte of  *)
(* the buffer that was never written is GARBAGE.                           *)
(***************************************************************************)
EXTENDS Integers, Sequences, FiniteSets, TLC

NUL == "NUL"
LF == "LF"
CR == "CR"
GARBAGE == "?"

\* static constexpr size_t SMALL_SIZE = 240 DEBUG_ONLY(*0 + 10);
SMALL_SIZE == 10
\* static constexpr size_t BIG_SIZE = 2048 DEBUG_ONLY(*0 + 20);
BIG_SIZE == 20

\* Bounds of the model.
MaxLen == 1
MaxChunk == 2
MaxPushback == 1

Min2(a, b) == IF a <= b THEN a ELSE b

\* F applied to the value v, evaluated once.
Let(v, F(_)) == F(v)

SetMin(S) == CHOOSE x \in S : \A y \in S : x <= y

VARIABLES st, last, rest, pat, npush, ntrue, stopped

vars == <<st, last, rest, pat, npush, ntrue, stopped>>

(***************************************************************************)
(* State predicates of the stream (istream.hpp).                           *)
(***************************************************************************)
unstarted(s) == s.buffer_size = 0

need_to_read(s) == s.end = s.content_end

have_current_line(s) == s.end < s.content_end

definitely_done(s) == s.end > s.buffer_size

error(s) == s.end >= s.buffer_size + 2

\* assert(cond, ""): in the ASSERT build a false condition aborts the VM.
vmassert(s, cond) == IF cond THEN s ELSE [s EXCEPT !.failed = TRUE]

clear_buffer(s) ==
  [s EXCEPT !.content_end = 0, !.beg = 0, !.end = 0, !.line_ending = 0]

\* Faulty variant: set_error that cannot take the error back.
set_error_never_clearing(s, error_condition) ==
  IF error_condition
    THEN [s EXCEPT !.end = s.buffer_size + 2, !.line_ending = 0]
    ELSE s

set_error(s, error_condition) ==
  IF error_condition
    THEN [s EXCEPT !.end = s.buffer_size + 2, !.line_ending = 0]
    ELSE IF error(s)
      THEN [s EXCEPT !.end = s.buffer_size + 1, !.line_ending = 0]
      ELSE s

\* Faulty variant: set_done that leaves beg where it was.
set_done_keeping_beg(s) ==
  IF ~definitely_done(s)
    THEN [s EXCEPT !.content_end = s.buffer_size,
                   !.end = 1 + s.buffer_size,
                   !.line_ending = 0]
    ELSE s

\* Faulty variant: set_done that only empties the buffer.
set_done_as_clear(s) == IF ~definitely_done(s) THEN clear_buffer(s) ELSE s

set_done(s) ==
  IF ~definitely_done(s)
    THEN [s EXCEPT !.content_end = s.buffer_size,
                   !.beg = 1 + s.buffer_size,
                   !.end = 1 + s.buffer_size,
                   !.line_ending = 0]
    ELSE s

(***************************************************************************)
(* set_buffer_content: point the indexes at [content_start, content_end)   *)
(* and scan for the first LF, which is overwritten by NUL, as is a CR      *)
(* right before it.                                                        *)
(***************************************************************************)
\* Faulty variant: the line ending found is not recorded.
set_buffer_content_no_ending(s, content_start, content_end) ==
  Let(vmassert(s, content_start >= 0 /\ content_end <= s.buffer_size), LAMBDA s0 :
    IF s0.failed THEN s0
    ELSE IF content_start >= content_end THEN clear_buffer(s0)
    ELSE Let({e \in content_start..(content_end - 1) : s0.buffer[e] = LF}, LAMBDA nls :
      IF nls = {}
        THEN [s0 EXCEPT !.beg = content_start,
                        !.content_end = content_end,
                        !.line_ending = 0,
                        !.end = content_end]
        ELSE Let(SetMin(nls), LAMBDA end :
          LET crlf == end > content_start /\ s0.buffer[end - 1] = CR
              b1 == [s0.buffer EXCEPT ![end] = NUL]
              b2 == IF crlf THEN [b1 EXCEPT ![end - 1] = NUL] ELSE b1
          IN [s0 EXCEPT !.beg = content_start,
                        !.content_end = content_end,
                        !.buffer = b2,
                        !.lineno = @ + 1,
                        !.line_ending = 0,
                        !.end = end])))

\* Faulty variant: a CR before the LF is left in the line.
set_buffer_content_keeping_cr(s, content_start, content_end) ==
  Let(vmassert(s, content_start >= 0 /\ content_end <= s.buffer_size), LAMBDA s0 :
    IF s0.failed THEN s0
    ELSE IF content_start >= content_end THEN clear_buffer(s0)
    ELSE Let({e \in content_start..(content_end - 1) : s0.buffer[e] = LF}, LAMBDA nls :
      IF nls = {}
        THEN [s0 EXCEPT !.beg = content_start,
                        !.content_end = content_end,
                        !.line_ending = 0,
                        !.end = content_end]
        ELSE Let(SetMin(nls), LAMBDA end :
          LET crlf == FALSE
              b1 == [s0.buffer EXCEPT ![end] = NUL]
              b2 == IF crlf THEN [b1 EXCEPT ![end - 1] = NUL] ELSE b1
          IN [s0 EXCEPT !.beg = content_start,
                        !.content_end = content_end,
                        !.buffer = b2,
                        !.lineno = @ + 1,
                        !.line_ending = 1,
                        !.end = end])))

\* Faulty variant: the CR of a CR LF ending is counted as a line of its own.
set_buffer_content_counting_cr(s, content_start, content_end) ==
  Let(vmassert(s, content_start >= 0 /\ content_end <= s.buffer_size), LAMBDA s0 :
    IF s0.failed THEN s0
    ELSE IF content_start >= content_end THEN clear_buffer(s0)
    ELSE Let({e \in content_start..(content_end - 1) : s0.buffer[e] = LF}, LAMBDA nls :
      IF nls = {}
        THEN [s0 EXCEPT !.beg = content_start,
                        !.content_end = content_end,
                        !.line_ending = 0,
                        !.end = content_end]
        ELSE Let(SetMin(nls), LAMBDA end :
          LET crlf == end > content_start /\ s0.buffer[end - 1] = CR
              b1 == [s0.buffer EXCEPT ![end] = NUL]
              b2 == IF crlf THEN [b1 EXCEPT ![end - 1] = NUL] ELSE b1
          IN [s0 EXCEPT !.beg = content_start,
                        !.content_end = content_end,
                        !.buffer = b2,
                        !.lineno = @ + (IF crlf THEN 2 ELSE 1),
                        !.line_ending = IF crlf THEN 2 ELSE 1,
                        !.end = end])))

\* Faulty variant: the LF that ends the line is left in the buffer.
set_buffer_content_not_terminating(s, content_start, content_end) ==
  Let(vmassert(s, content_start >= 0 /\ content_end <= s.buffer_size), LAMBDA s0 :
    IF s0.failed THEN s0
    ELSE IF content_start >= content_end THEN clear_buffer(s0)
    ELSE Let({e \in content_start..(content_end - 1) : s0.buffer[e] = LF}, LAMBDA nls :
      IF nls = {}
        THEN [s0 EXCEPT !.beg = content_start,
                        !.content_end = content_end,
                        !.line_ending = 0,
                        !.end = content_end]
        ELSE Let(SetMin(nls), LAMBDA end :
          LET crlf == end > content_start /\ s0.buffer[end - 1] = CR
              b1 == s0.buffer
              b2 == IF crlf THEN [b1 EXCEPT ![end - 1] = NUL] ELSE b1
          IN [s0 EXCEPT !.beg = content_start,
                        !.content_end = content_end,
                        !.buffer = b2,
                        !.lineno = @ + 1,
                        !.line_ending = IF crlf THEN 2 ELSE 1,
                        !.end = end])))

set_buffer_content(s, content_start, content_end) ==
  Let(vmassert(s, content_start >= 0 /\ content_end <= s.buffer_size), LAMBDA s0 :
    IF s0.failed THEN s0
    ELSE IF content_start >= content_end THEN clear_buffer(s0)
    ELSE Let({e \in content_start..(content_end - 1) : s0.buffer[e] = LF}, LAMBDA nls :
      IF nls = {}
        THEN [s0 EXCEPT !.beg = content_start,
                        !.content_end = content_end,
                        !.line_ending = 0,
                        !.end = content_end]
        ELSE Let(SetMin(nls), LAMBDA end :
          LET crlf == end > content_start /\ s0.buffer[end - 1] = CR
              b1 == [s0.buffer EXCEPT ![end] = NUL]
              b2 == IF crlf THEN [b1 EXCEPT ![end - 1] = NUL] ELSE b1
          IN [s0 EXCEPT !.beg = content_start,
                        !.content_end = content_end,
                        !.buffer = b2,
                        !.lineno = @ + 1,
                        !.line_ending = IF crlf THEN 2 ELSE 1,
                        !.end = end])))

(***************************************************************************)
(* expand_buffer: the embedded small buffer, a realloc of the heap buffer, *)
(* or a fresh heap buffer into which only the active content is copied.    *)
(* `ok` says whether the C heap delivers.  Returns [s, ret].               *)
(***************************************************************************)
\* Faulty variant: a realloc that does not keep the old content.
expand_buffer_losing_content(s, new_length, ok) ==
  Let(vmassert(s, new_length > s.buffer_size), LAMBDA s0 :
    IF new_length <= SMALL_SIZE
      THEN [s |-> [s0 EXCEPT !.buffer = [i \in 0..(SMALL_SIZE - 1) |-> GARBAGE],
                             !.buffer_size = SMALL_SIZE],
            ret |-> TRUE]
    ELSE IF ~ok THEN [s |-> s0, ret |-> FALSE]
    ELSE IF s0.buffer_size > 0 /\ s0.must_free
      THEN [s |-> [s0 EXCEPT !.buffer = [i \in 0..(new_length - 1) |-> GARBAGE],
                             !.buffer_size = new_length],
            ret |-> TRUE]
      ELSE Let(vmassert(s0, s0.content_end <= s0.buffer_size), LAMBDA s1 :
             [s |-> [s1 EXCEPT !.buffer = [i \in 0..(new_length - 1) |->
                                 IF i < s1.content_end /\ i < s1.buffer_size
                                   THEN s1.buffer[i] ELSE GARBAGE],
                               !.buffer_size = new_length,
                               !.must_free = TRUE],
              ret |-> TRUE]))

expand_buffer(s, new_length, ok) ==
  Let(vmassert(s, new_length > s.buffer_size), LAMBDA s0 :
    IF new_length <= SMALL_SIZE
      THEN [s |-> [s0 EXCEPT !.buffer = [i \in 0..(SMALL_SIZE - 1) |-> GARBAGE],
                             !.buffer_size = SMALL_SIZE],
            ret |-> TRUE]
    ELSE IF ~ok THEN [s |-> s0, ret |-> FALSE]
    ELSE IF s0.buffer_size > 0 /\ s0.must_free
      THEN [s |-> [s0 EXCEPT !.buffer = [i \in 0..(new_length - 1) |->
                               IF i < s0.buffer_size THEN s0.buffer[i] ELSE GARBAGE],
                             !.buffer_size = new_length],
            ret |-> TRUE]
      ELSE Let(vmassert(s0, s0.content_end <= s0.buffer_size), LAMBDA s1 :
             [s |-> [s1 EXCEPT !.buffer = [i \in 0..(new_length - 1) |->
                                 IF i < s1.content_end /\ i < s1.buffer_size
                                   THEN s1.buffer[i] ELSE GARBAGE],
                               !.buffer_size = new_length,
                               !.must_free = TRUE],
              ret |-> TRUE]))

(***************************************************************************)
(* prepare_to_fill_buffer: find room for read_input right after the        *)
(* partial line, if any.  Returns [s, fill_offset, fill_length].           *)
(***************************************************************************)
\* Faulty variant: a full buffer is grown by one byte at a time.
prepare_to_fill_buffer_creeping(s, ok) ==
  Let(vmassert(s, s.end = s.content_end), LAMBDA s0 :
  Let(IF s0.buffer_size = 0 THEN expand_buffer(s0, SMALL_SIZE, ok).s ELSE s0, LAMBDA s1 :
    IF s1.beg = s1.end
      THEN [s |-> clear_buffer(s1), fill_offset |-> 0, fill_length |-> s1.buffer_size]
      ELSE Let(s1.content_end - s1.beg, LAMBDA content_len :
           Let(IF s1.beg > 0
                 THEN [s1 EXCEPT !.buffer = [i \in DOMAIN s1.buffer |->
                                   IF i < content_len
                                     THEN s1.buffer[s1.beg + i]
                                     ELSE s1.buffer[i]],
                                 !.content_end = content_len,
                                 !.end = content_len,
                                 !.beg = 0]
                 ELSE s1, LAMBDA s2 :
             IF s2.end < s2.buffer_size
               THEN [s |-> s2, fill_offset |-> s2.end,
                     fill_length |-> s2.buffer_size - s2.end]
               ELSE Let(expand_buffer(s2, s2.buffer_size + 1, ok), LAMBDA x :
                      IF x.ret
                        THEN [s |-> x.s, fill_offset |-> x.s.end,
                              fill_length |-> x.s.buffer_size - x.s.end]
                        ELSE [s |-> set_error(x.s, TRUE),
                              fill_offset |-> 0, fill_length |-> 0])))))

\* Faulty variant: a partial line that starts at beg > 0 is left where it is.
prepare_to_fill_buffer_uncompacted(s, ok) ==
  Let(vmassert(s, s.end = s.content_end), LAMBDA s0 :
  Let(IF s0.buffer_size = 0 THEN expand_buffer(s0, SMALL_SIZE, ok).s ELSE s0, LAMBDA s1 :
    IF s1.beg = s1.end
      THEN [s |-> clear_buffer(s1), fill_offset |-> 0, fill_length |-> s1.buffer_size]
      ELSE Let(s1.content_end - s1.beg, LAMBDA content_len :
           Let(IF FALSE
                 THEN [s1 EXCEPT !.buffer = [i \in DOMAIN s1.buffer |->
                                   IF i < content_len
                                     THEN s1.buffer[s1.beg + i]
                                     ELSE s1.buffer[i]],
                                 !.content_end = content_len,
                                 !.end = content_len,
                                 !.beg = 0]
                 ELSE s1, LAMBDA s2 :
             IF s2.end < s2.buffer_size
               THEN [s |-> s2, fill_offset |-> s2.end,
                     fill_length |-> s2.buffer_size - s2.end]
               ELSE Let(expand_buffer(s2, IF s2.buffer_size < BIG_SIZE
                                            THEN BIG_SIZE
                                            ELSE s2.buffer_size + (s2.buffer_size \div 2),
                                      ok), LAMBDA x :
                      IF x.ret
                        THEN [s |-> x.s, fill_offset |-> x.s.end,
                              fill_length |-> x.s.buffer_size - x.s.end]
                        ELSE [s |-> set_error(x.s, TRUE),
                              fill_offset |-> 0, fill_length |-> 0])))))

\* Faulty variant: the fill area starts on the last byte of the partial line.
prepare_to_fill_buffer_overlapping(s, ok) ==
  Let(vmassert(s, s.end = s.content_end), LAMBDA s0 :
  Let(IF s0.buffer_size = 0 THEN expand_buffer(s0, SMALL_SIZE, ok).s ELSE s0, LAMBDA s1 :
    IF s1.beg = s1.end
      THEN [s |-> clear_buffer(s1), fill_offset |-> 0, fill_length |-> s1.buffer_size]
      ELSE Let(s1.content_end - s1.beg, LAMBDA content_len :
           Let(IF s1.beg > 0
                 THEN [s1 EXCEPT !.buffer = [i \in DOMAIN s1.buffer |->
                                   IF i < content_len
                                     THEN s1.buffer[s1.beg + i]
                                     ELSE s1.buffer[i]],
                                 !.content_end = content_len,
                                 !.end = content_len,
                                 !.beg = 0]
                 ELSE s1, LAMBDA s2 :
             IF s2.end < s2.buffer_size
               THEN [s |-> s2, fill_offset |-> s2.end - 1,
                     fill_length |-> (s2.buffer_size - s2.end) + 1]
               ELSE Let(expand_buffer(s2, IF s2.buffer_size < BIG_SIZE
                                            THEN BIG_SIZE
                                            ELSE s2.buffer_size + (s2.buffer_size \div 2),
                                      ok), LAMBDA x :
                      IF x.ret
                        THEN [s |-> x.s, fill_offset |-> x.s.end,
                              fill_length |-> x.s.buffer_size - x.s.end]
                        ELSE [s |-> set_error(x.s, TRUE),
                              fill_offset |-> 0, fill_length |-> 0])))))

prepare_to_fill_buffer(s, ok) ==
  Let(vmassert(s, s.end = s.content_end), LAMBDA s0 :
  Let(IF s0.buffer_size = 0 THEN expand_buffer(s0, SMALL_SIZE, ok).s ELSE s0, LAMBDA s1 :
    IF s1.beg = s1.end
      THEN [s |-> clear_buffer(s1), fill_offset |-> 0, fill_length |-> s1.buffer_size]
      ELSE Let(s1.content_end - s1.beg, LAMBDA content_len :
           Let(IF s1.beg > 0
                 THEN [s1 EXCEPT !.buffer = [i \in DOMAIN s1.buffer |->
                                   IF i < content_len
                                     THEN s1.buffer[s1.beg + i]
                                     ELSE s1.buffer[i]],
                                 !.content_end = content_len,
                                 !.end = content_len,
                                 !.beg = 0]
                 ELSE s1, LAMBDA s2 :
             IF s2.end < s2.buffer_size
               THEN [s |-> s2, fill_offset |-> s2.end,
                     fill_length |-> s2.buffer_size - s2.end]
               ELSE Let(expand_buffer(s2, IF s2.buffer_size < BIG_SIZE
                                            THEN BIG_SIZE
                                            ELSE s2.buffer_size + (s2.buffer_size \div 2),
                                      ok), LAMBDA x :
                      IF x.ret
                        THEN [s |-> x.s, fill_offset |-> x.s.end,
                              fill_length |-> x.s.buffer_size - x.s.end]
                        ELSE [s |-> set_error(x.s, TRUE),
                              fill_offset |-> 0, fill_length |-> 0])))))

(***************************************************************************)
(* read_input of the BlockInput: MemoryInput copies as much of its slice   *)
(* as fits; a FileInput (fread) may deliver less, here at most c bytes.    *)
(* The bytes are copied from the source slice `base` into the buffer.      *)
(* Returns [s, nr].                                                        *)
(***************************************************************************)
\* Faulty variant: a source that ends the line in its own slice.
read_input_scribbling(s, fill_offset, size, c) ==
  Let(IF s.kind = "MemoryInput"
        THEN Min2(size, Len(s.base) - s.offset)
        ELSE Min2(Min2(size, Len(s.base) - s.offset), c), LAMBDA nr :
    [s |-> [s EXCEPT !.buffer = [i \in DOMAIN s.buffer |->
                       IF fill_offset <= i /\ i < fill_offset + nr
                         THEN s.base[s.offset + (i - fill_offset) + 1]
                         ELSE s.buffer[i]],
                     !.base = [i \in DOMAIN s.base |->
                       IF i = s.offset + nr /\ s.base[i] = LF THEN NUL ELSE s.base[i]],
                     !.offset = @ + nr,
                     !.did_read = TRUE],
     nr |-> nr])

read_input(s, fill_offset, size, c) ==
  Let(IF s.kind = "MemoryInput"
        THEN Min2(size, Len(s.base) - s.offset)
        ELSE Min2(Min2(size, Len(s.base) - s.offset), c), LAMBDA nr :
    [s |-> [s EXCEPT !.buffer = [i \in DOMAIN s.buffer |->
                       IF fill_offset <= i /\ i < fill_offset + nr
                         THEN s.base[s.offset + (i - fill_offset) + 1]
                         ELSE s.buffer[i]],
                     !.offset = @ + nr,
                     !.did_read = TRUE],
     nr |-> nr])

(***************************************************************************)
(* fill_buffer: read until there is a line, the input ends, or an error.   *)
(* Returns [s, ret].                                                       *)
(***************************************************************************)
\* Faulty variant: a read of 0 bytes with no partial line is tried again.
fill_step_missing_end(s, c, ok) ==
  Let(prepare_to_fill_buffer(s, ok), LAMBDA p :
    IF p.s.failed \/ error(p.s) THEN [s |-> p.s, ret |-> FALSE, again |-> FALSE]
    ELSE Let(vmassert(p.s, p.fill_length > 0 /\ p.fill_offset >= 0
                           /\ p.fill_offset + p.fill_length <= p.s.buffer_size),
             LAMBDA s1 :
      IF s1.failed THEN [s |-> s1, ret |-> FALSE, again |-> FALSE]
      ELSE Let(IF s1.kind # "string"
                 THEN read_input(s1, p.fill_offset, p.fill_length, c)
                 ELSE [s |-> s1, nr |-> 0], LAMBDA r :
        IF r.nr = 0
          THEN IF r.s.beg = r.s.end
                 THEN [s |-> r.s, ret |-> FALSE, again |-> TRUE]
                 ELSE Let(set_buffer_content([r.s EXCEPT !.buffer[p.fill_offset] = LF],
                                             r.s.beg, p.fill_offset + 1), LAMBDA s3 :
                        [s |-> [s3 EXCEPT !.line_ending = 0], ret |-> TRUE,
                         again |-> FALSE])
          ELSE [s |-> set_buffer_content(r.s, r.s.beg, p.fill_offset + r.nr),
                ret |-> TRUE, again |-> TRUE])))

\* One turn of the while loop; `again` says whether the loop goes on.
fill_step(s, c, ok) ==
  Let(prepare_to_fill_buffer(s, ok), LAMBDA p :
    IF p.s.failed \/ error(p.s) THEN [s |-> p.s, ret |-> FALSE, again |-> FALSE]
    ELSE Let(vmassert(p.s, p.fill_length > 0 /\ p.fill_offset >= 0
                           /\ p.fill_offset + p.fill_length <= p.s.buffer_size),
             LAMBDA s1 :
      IF s1.failed THEN [s |-> s1, ret |-> FALSE, again |-> FALSE]
      ELSE Let(IF s1.kind # "string"
                 THEN read_input(s1, p.fill_offset, p.fill_length, c)
                 ELSE [s |-> s1, nr |-> 0], LAMBDA r :
        IF r.nr = 0
          THEN IF r.s.beg = r.s.end
                 THEN [s |-> set_done(r.s), ret |-> FALSE, again |-> FALSE]
                 ELSE Let(set_buffer_content([r.s EXCEPT !.buffer[p.fill_offset] = LF],
                                             r.s.beg, p.fill_offset + 1), LAMBDA s3 :
                        [s |-> [s3 EXCEPT !.line_ending = 0], ret |-> TRUE,
                         again |-> FALSE])
          ELSE [s |-> set_buffer_content(r.s, r.s.beg, p.fill_offset + r.nr),
                ret |-> TRUE, again |-> TRUE])))

RECURSIVE fill_loop(_, _, _)
fill_loop(s, c, ok) ==
  IF s.failed THEN [s |-> s, ret |-> FALSE]
  ELSE IF ~need_to_read(s) THEN [s |-> s, ret |-> TRUE]
  ELSE Let(fill_step(s, c, ok), LAMBDA x :
         IF x.again THEN fill_loop(x.s, c, ok) ELSE [s |-> x.s, ret |-> x.ret])

fill_buffer(s, c, ok) == fill_loop(vmassert(s, ~definitely_done(s)), c, ok)

preload_buffer(s, c, ok) == IF need_to_read(s) THEN fill_buffer(s, c, ok).s ELSE s


(***************************************************************************)
(* Byte strings.  cstring is what a reader of a char* sees: the bytes up   *)
(* to the first NUL.                                                       *)
(***************************************************************************)
RECURSIVE cstring(_, _)
cstring(buf, p) ==
  IF p \notin DOMAIN buf \/ buf[p] = NUL THEN <<>>
  ELSE <<buf[p]>> \o cstring(buf, p + 1)

\* strlen of a byte sequence that carries its terminating NUL
strlen(chars) ==
  LET nuls == {i \in 1..Len(chars) : chars[i] = NUL}
  IN IF nuls = {} THEN Len(chars) ELSE SetMin(nuls) - 1

(***************************************************************************)
(* The public operations.  Each returns [s, ret].                          *)
(***************************************************************************)
\* Faulty variant: next() that reports true for having discarded a line.
next_true_on_discard(s, c, ok) ==
  Let(preload_buffer(s, c, ok), LAMBDA s0 :
    IF s0.failed \/ definitely_done(s0) THEN [s |-> s0, ret |-> FALSE]
    ELSE Let(vmassert(s0, have_current_line(s0)), LAMBDA s1 :
      IF s1.failed THEN [s |-> s1, ret |-> FALSE]
      ELSE Let(set_buffer_content([s1 EXCEPT !.position = @ + ((s1.end + 1) - s1.beg)],
                                  s1.end + 1, s1.content_end), LAMBDA s3 :
        IF ~need_to_read(s3)
          THEN [s |-> vmassert(s3, have_current_line(s3)), ret |-> TRUE]
          ELSE [s |-> fill_buffer(s3, c, ok).s, ret |-> TRUE])))

\* Faulty variant: next() that does not go back to the source.
next_not_refilling(s, c, ok) ==
  Let(preload_buffer(s, c, ok), LAMBDA s0 :
    IF s0.failed \/ definitely_done(s0) THEN [s |-> s0, ret |-> FALSE]
    ELSE Let(vmassert(s0, have_current_line(s0)), LAMBDA s1 :
      IF s1.failed THEN [s |-> s1, ret |-> FALSE]
      ELSE Let(set_buffer_content([s1 EXCEPT !.position = @ + ((s1.end + 1) - s1.beg)],
                                  s1.end + 1, s1.content_end), LAMBDA s3 :
        IF ~need_to_read(s3)
          THEN [s |-> vmassert(s3, have_current_line(s3)), ret |-> TRUE]
          ELSE [s |-> s3, ret |-> TRUE])))

\* Faulty variant: next() that adds the bytes up to the LF, and not the LF.
next_position_without_LF(s, c, ok) ==
  Let(preload_buffer(s, c, ok), LAMBDA s0 :
    IF s0.failed \/ definitely_done(s0) THEN [s |-> s0, ret |-> FALSE]
    ELSE Let(vmassert(s0, have_current_line(s0)), LAMBDA s1 :
      IF s1.failed THEN [s |-> s1, ret |-> FALSE]
      ELSE Let(set_buffer_content([s1 EXCEPT !.position = @ + (s1.end - s1.beg)],
                                  s1.end + 1, s1.content_end), LAMBDA s3 :
        IF ~need_to_read(s3)
          THEN [s |-> vmassert(s3, have_current_line(s3)), ret |-> TRUE]
          ELSE fill_buffer(s3, c, ok))))

next(s, c, ok) ==
  Let(preload_buffer(s, c, ok), LAMBDA s0 :
    IF s0.failed \/ definitely_done(s0) THEN [s |-> s0, ret |-> FALSE]
    ELSE Let(vmassert(s0, have_current_line(s0)), LAMBDA s1 :
      IF s1.failed THEN [s |-> s1, ret |-> FALSE]
      ELSE Let(set_buffer_content([s1 EXCEPT !.position = @ + ((s1.end + 1) - s1.beg)],
                                  s1.end + 1, s1.content_end), LAMBDA s3 :
        IF ~need_to_read(s3)
          THEN [s |-> vmassert(s3, have_current_line(s3)), ret |-> TRUE]
          ELSE fill_buffer(s3, c, ok))))

current_line(s, c, ok) ==
  Let(preload_buffer(s, c, ok), LAMBDA s0 :
    [s |-> s0,
     ret |-> IF definitely_done(s0) THEN <<>> ELSE cstring(s0.buffer, s0.beg)])

\* current_line(size_t& line_length): ret is the line_length bytes at the
\* pointer returned; past the one NUL of the static "" they are unknown.
current_line_sized(s, c, ok) ==
  Let(preload_buffer(s, c, ok), LAMBDA s0 :
    [s |-> s0,
     line_length |-> s0.end - s0.beg,
     ret |-> [j \in 1..(s0.end - s0.beg) |->
                IF definitely_done(s0)
                  THEN (IF j = 1 THEN NUL ELSE GARBAGE)
                  ELSE IF s0.beg + j - 1 \in DOMAIN s0.buffer
                    THEN s0.buffer[s0.beg + j - 1] ELSE GARBAGE]])

current_line_length(s, c, ok) ==
  Let(preload_buffer(s, c, ok), LAMBDA s0 : [s |-> s0, ret |-> s0.end - s0.beg])

current_line_ending(s, c, ok) ==
  Let(preload_buffer(s, c, ok), LAMBDA s0 :
    [s |-> s0,
     ret |-> IF s0.line_ending = 1 THEN <<LF>>
             ELSE IF s0.line_ending = 2 THEN <<CR, LF>>
             ELSE <<>>])

\* ret is the buffered_size bytes at the pointer returned.
buffered_after_current(s, c, ok) ==
  Let(preload_buffer(s, c, ok), LAMBDA s0 :
    IF definitely_done(s0) THEN [s |-> s0, buffered_size |-> 0, ret |-> <<>>]
    ELSE Let(s0.end + s0.line_ending, LAMBDA endl :
         Let(vmassert(s0, endl <= s0.content_end), LAMBDA s1 :
           [s |-> s1,
            buffered_size |-> s1.content_end - endl,
            ret |-> [j \in 1..(s1.content_end - endl) |-> s1.buffer[endl + j - 1]]])))

done(s, c, ok) ==
  Let(preload_buffer(s, c, ok), LAMBDA s0 : [s |-> s0, ret |-> definitely_done(s0)])

\* The copy holds the len bytes of the line and a terminating NUL.
save_line(s, c, ok) ==
  Let(preload_buffer(s, c, ok), LAMBDA s0 :
    [s |-> s0,
     ret |-> [j \in 1..(s0.end - s0.beg) |->
                IF definitely_done(s0)
                  THEN (IF j = 1 THEN NUL ELSE GARBAGE)
                  ELSE IF s0.beg + j - 1 \in DOMAIN s0.buffer
                    THEN s0.buffer[s0.beg + j - 1] ELSE GARBAGE]
             \o <<NUL>>])

(***************************************************************************)
(* pushback_input.  With length = 0 the read of chars[length-1] is out of  *)
(* range; `u` is what that read makes of partial_line.                     *)
(***************************************************************************)
\* Faulty variant: lineno is not taken back for the line seen again.
pushback_input_keeping_lineno(s, chars, overwrite_current_line, u, c, ok) ==
  LET length == Len(chars)
      partial_line == IF length > 0 THEN chars[length] # LF ELSE u
  IN
  IF s.failed THEN s ELSE
  Let(IF overwrite_current_line THEN preload_buffer(s, c, ok) ELSE s, LAMBDA s0 :
  Let(overwrite_current_line /\ have_current_line(s0), LAMBDA overwrite :
  Let(IF ~definitely_done(s0)
        THEN (IF overwrite THEN s0.end + 1 ELSE s0.beg)
        ELSE 0, LAMBDA pending_beg :
  Let(have_current_line(s0) /\ pending_beg <= s0.end, LAMBDA restore :
  Let(IF have_current_line(s0) THEN s0 ELSE s0, LAMBDA s1 :
  Let(IF restore
        THEN Let(vmassert(s1, s1.buffer[s1.end] = NUL), LAMBDA a :
             Let([a EXCEPT !.buffer[a.end] = LF], LAMBDA b :
               IF b.line_ending = 2
                 THEN Let(vmassert(b, pending_beg < b.end - 1
                                      /\ b.buffer[b.end - 1] = NUL), LAMBDA d :
                        [d EXCEPT !.buffer[d.end - 1] = CR])
                 ELSE IF b.line_ending = 0
                   THEN vmassert(b, b.end + 1 = b.content_end)
                   ELSE b))
        ELSE s1, LAMBDA s2 :
  Let((IF ~definitely_done(s0) THEN s0.content_end - pending_beg ELSE 0)
       - (IF restore /\ s0.line_ending = 0 THEN 1 ELSE 0), LAMBDA pending :
    IF s2.failed THEN s2
    ELSE Let(IF s2.buffer_size < length + (IF pending # 0 THEN pending ELSE 1)
               THEN expand_buffer(s2, length + (IF pending # 0 THEN pending ELSE 1), ok)
               ELSE [s |-> s2, ret |-> TRUE], LAMBDA x :
      IF ~x.ret THEN set_error(x.s, TRUE)
      ELSE Let(vmassert(x.s, length + pending <= x.s.buffer_size), LAMBDA s3 :
        IF s3.failed THEN s3
        ELSE Let(IF pending > 0 THEN s3.buffer_size - pending
                 ELSE IF partial_line THEN s3.buffer_size - 1
                 ELSE s3.buffer_size, LAMBDA fillp0 :
             Let(IF pending > 0 /\ fillp0 # pending_beg
                   THEN [i \in DOMAIN s3.buffer |->
                           IF fillp0 <= i /\ i < fillp0 + pending
                             THEN s3.buffer[pending_beg + (i - fillp0)]
                             ELSE s3.buffer[i]]
                   ELSE s3.buffer, LAMBDA moved :
             Let(fillp0 - length, LAMBDA fillp :
             Let(set_buffer_content(
                   [s3 EXCEPT !.buffer = [i \in DOMAIN moved |->
                                 IF fillp <= i /\ i < fillp + length
                                   THEN chars[i - fillp + 1]
                                   ELSE moved[i]]],
                   fillp, fillp + length + pending), LAMBDA s4 :
               vmassert(s4, ~unstarted(s4)))))))))))))))

pushback_input(s, chars, overwrite_current_line, u, c, ok) ==
  LET length == Len(chars)
      partial_line == IF length > 0 THEN chars[length] # LF ELSE u
  IN
  IF s.failed THEN s ELSE
  Let(IF overwrite_current_line THEN preload_buffer(s, c, ok) ELSE s, LAMBDA s0 :
  Let(overwrite_current_line /\ have_current_line(s0), LAMBDA overwrite :
  Let(IF ~definitely_done(s0)
        THEN (IF overwrite THEN s0.end + 1 ELSE s0.beg)
        ELSE 0, LAMBDA pending_beg :
  Let(have_current_line(s0) /\ pending_beg <= s0.end, LAMBDA restore :
  Let(IF have_current_line(s0) THEN [s0 EXCEPT !.lineno = @ - 1] ELSE s0, LAMBDA s1 :
  Let(IF restore
        THEN Let(vmassert(s1, s1.buffer[s1.end] = NUL), LAMBDA a :
             Let([a EXCEPT !.buffer[a.end] = LF], LAMBDA b :
               IF b.line_ending = 2
                 THEN Let(vmassert(b, pending_beg < b.end - 1
                                      /\ b.buffer[b.end - 1] = NUL), LAMBDA d :
                        [d EXCEPT !.buffer[d.end - 1] = CR])
                 ELSE IF b.line_ending = 0
                   THEN vmassert(b, b.end + 1 = b.content_end)
                   ELSE b))
        ELSE s1, LAMBDA s2 :
  Let((IF ~definitely_done(s0) THEN s0.content_end - pending_beg ELSE 0)
       - (IF restore /\ s0.line_ending = 0 THEN 1 ELSE 0), LAMBDA pending :
    IF s2.failed THEN s2
    ELSE Let(IF s2.buffer_size < length + (IF pending # 0 THEN pending ELSE 1)
               THEN expand_buffer(s2, length + (IF pending # 0 THEN pending ELSE 1), ok)
               ELSE [s |-> s2, ret |-> TRUE], LAMBDA x :
      IF ~x.ret THEN set_error(x.s, TRUE)
      ELSE Let(vmassert(x.s, length + pending <= x.s.buffer_size), LAMBDA s3 :
        IF s3.failed THEN s3
        ELSE Let(IF pending > 0 THEN s3.buffer_size - pending
                 ELSE IF partial_line THEN s3.buffer_size - 1
                 ELSE s3.buffer_size, LAMBDA fillp0 :
             Let(IF pending > 0 /\ fillp0 # pending_beg
                   THEN [i \in DOMAIN s3.buffer |->
                           IF fillp0 <= i /\ i < fillp0 + pending
                             THEN s3.buffer[pending_beg + (i - fillp0)]
                             ELSE s3.buffer[i]]
                   ELSE s3.buffer, LAMBDA moved :
             Let(fillp0 - length, LAMBDA fillp :
             Let(set_buffer_content(
                   [s3 EXCEPT !.buffer = [i \in DOMAIN moved |->
                                 IF fillp <= i /\ i < fillp + length
                                   THEN chars[i - fillp + 1]
                                   ELSE moved[i]]],
                   fillp, fillp + length + pending), LAMBDA s4 :
               vmassert(s4, ~unstarted(s4)))))))))))))))

(***************************************************************************)
(* The round trip of the gtest: save the current line and its ending, then *)
(* either overwrite the line by its ending or step past it and push the    *)
(* ending back, and push the saved copy back in front.  pushback_input of  *)
(* a C string takes its strlen.  Returns [s, ret] with what the test       *)
(* compares.                                                               *)
(***************************************************************************)
round_trip(s, overwrite, u, c, ok1, ok2) ==
  Let(save_line(s, c, ok1), LAMBDA sv :
  Let(SubSeq(sv.ret, 1, strlen(sv.ret)), LAMBDA copy :
  Let(current_line(sv.s, c, ok1).ret, LAMBDA lp0 :
  Let(current_line_length(sv.s, c, ok1).ret, LAMBDA oldcll :
  Let(current_line_ending(sv.s, c, ok1).ret, LAMBDA endl :
  Let(IF overwrite
        THEN pushback_input(pushback_input(sv.s, endl, TRUE, u, c, ok1),
                            copy, FALSE, u, c, ok2)
        ELSE Let(next(sv.s, c, ok1), LAMBDA saw_next :
             Let(pushback_input(pushback_input(saw_next.s, endl, FALSE, u, c, ok1),
                                copy, FALSE, u, c, ok2), LAMBDA p :
               [p EXCEPT !.lineno = @ + (IF saw_next.ret THEN -1 ELSE 0)])),
      LAMBDA after :
  Let(current_line(after, c, ok2), LAMBDA lp :
  Let(current_line_length(lp.s, c, ok2), LAMBDA newcll :
    [s |-> newcll.s,
     ret |-> [overwrite |-> overwrite, copy |-> copy, endl |-> endl,
              old_line |-> lp0, oldcll |-> oldcll,
              lp |-> lp.ret, newcll |-> newcll.ret]]))))))))

(***************************************************************************)
(* xmlInput (xmlinput.hpp/.cpp): an inputStream and what the last scan of  *)
(* its current line found.  The fields of the xmlInput are fields of the   *)
(* same record as those of its _input.                                     *)
(***************************************************************************)
\* enum LineKind
TEXT == 0
HEAD == 1
TAIL == 2
ELEM == HEAD + TAIL

kind_mask == 3
kind_valid == 4
lineno_shift == 3

\* (lineno << _lineno_shift) | _kind_valid | (kind & _kind_mask)
status_code(lineno_, kind) == (lineno_ * (2 ^ lineno_shift)) + kind_valid + (kind % (kind_mask + 1))

\* status_code(lineno(), _kind_mask) != (_line_status | _kind_mask)
need_scan(s) ==
  status_code(s.lineno, kind_mask)
    # ((s.line_status \div (kind_mask + 1)) * (kind_mask + 1)) + kind_mask

reset_line_pointers(s) ==
  [s EXCEPT !.line_status = 0, !.line_length = 0, !.error_offset = 0,
            !.attr_count = 0, !.tag_offset = 0, !.tag_end = 0]

\* The Special Six and the bytes they stand for.
Escapes ==
  {[src |-> <<"&", "a", "m", "p", ";">>, chr |-> "&"],
   [src |-> <<"&", "l", "t", ";">>, chr |-> "<"],
   [src |-> <<"&", "g", "t", ";">>, chr |-> ">"],
   [src |-> <<"&", "q", "u", "o", "t", ";">>, chr |-> "\""],
   [src |-> <<"&", "a", "p", "o", "s", ";">>, chr |-> "'"],
   [src |-> <<"&", "#", "1", "0", ";">>, chr |-> LF]}

EscapeAt(seq) ==
  {e \in Escapes : Len(e.src) <= Len(seq) /\ SubSeq(seq, 1, Len(e.src)) = e.src}

\* The bytes with every escape replaced by the byte it stands for.
RECURSIVE unescape(_)
unescape(seq) ==
  IF seq = <<>> THEN <<>>
  ELSE IF EscapeAt(seq) # {}
    THEN LET e == CHOOSE e \in EscapeAt(seq) : TRUE
         IN <<e.chr>> \o unescape(SubSeq(seq, Len(e.src) + 1, Len(seq)))
    ELSE <<seq[1]>> \o unescape(Tail(seq))

\* xmlStream::unescape_in_place(lp, ll) on the line of s: the bytes are
\* written back where they were, a NUL after them if they got fewer.
\* Returns [s, ret], ret the new length.
unescape_in_place(s, ll) ==
  IF definitely_done(s) THEN [s |-> s, ret |-> ll]
  ELSE Let(unescape([i \in 1..ll |-> s.buffer[s.beg + i - 1]]), LAMBDA out :
         [s |-> [s EXCEPT !.buffer = [i \in DOMAIN s.buffer |->
                            IF s.beg <= i /\ i < s.beg + Len(out) THEN out[i - s.beg + 1]
                            ELSE IF i = s.beg + Len(out) /\ Len(out) < ll THEN NUL
                            ELSE s.buffer[i]]],
          ret |-> Len(out)])

\* lp[i] of do_scan, lp the pointer current_line() returns.
line_byte(s, i) ==
  IF definitely_done(s) THEN (IF i = 0 THEN NUL ELSE GARBAGE)
  ELSE IF s.beg + i \in DOMAIN s.buffer THEN s.buffer[s.beg + i] ELSE GARBAGE

\* The offset from lp of the first blank before the first NUL, or -1.
strchr_blank(s) ==
  Let(cstring(s.buffer, s.beg), LAMBDA str :
    IF \E i \in 1..Len(str) : str[i] = " "
      THEN SetMin({i \in 1..Len(str) : str[i] = " "}) - 1
      ELSE -1)

\* The markup branch of do_scan: lk, toff and ll as the edges of the line
\* tell them, the NULs written after the tag and after the line.
scan_markup(s, ll0) ==
  Let(IF line_byte(s, 1) = "/" THEN [lk |-> TAIL, toff |-> 2, ll |-> ll0 - 1]
      ELSE IF line_byte(s, ll0 - 2) = "/" THEN [lk |-> ELEM, toff |-> 1, ll |-> ll0 - 2]
      ELSE IF line_byte(s, ll0 - 2) = "?" THEN [lk |-> ELEM, toff |-> 1, ll |-> ll0 - 2]
      ELSE [lk |-> HEAD, toff |-> 1, ll |-> ll0 - 1], LAMBDA e :
  Let([s EXCEPT !.buffer[s.beg + e.ll] = NUL], LAMBDA s1 :
  Let(IF e.lk # TAIL THEN strchr_blank(s1) ELSE -1, LAMBDA etag :
    IF etag >= 0
      THEN [s |-> [s1 EXCEPT !.buffer[s1.beg + etag] = NUL],
            lk |-> e.lk, toff |-> e.toff, ll |-> e.ll, tend |-> etag,
            acount |-> IF \E i \in (etag + 1)..(e.ll - 1) : line_byte(s1, i) # " "
                         THEN -1 ELSE 0]
      ELSE [s |-> s1, lk |-> e.lk, toff |-> e.toff, ll |-> e.ll, tend |-> e.ll,
            acount |-> 0])))

do_scan(s, c, ok) ==
  Let(current_line_sized(s, c, ok), LAMBDA cl :
  Let(IF cl.line_length >= 2 /\ line_byte(cl.s, 0) = "<"
         /\ line_byte(cl.s, cl.line_length - 1) = ">"
        THEN scan_markup(cl.s, cl.line_length)
        ELSE Let(unescape_in_place(cl.s, cl.line_length), LAMBDA u :
               [s |-> u.s, lk |-> TEXT, toff |-> 0, ll |-> u.ret, tend |-> 0,
                acount |-> 0]), LAMBDA r :
    Let([reset_line_pointers(r.s) EXCEPT
           !.line_status = status_code(r.s.lineno, r.lk),
           !.line_length = r.ll,
           !.tag_offset = r.toff,
           !.tag_end = r.tend,
           !.attr_count = r.acount], LAMBDA s1 :
      vmassert(s1, (s1.line_status \div (2 ^ lineno_shift)) = s1.lineno
                   /\ s1.line_status % (kind_mask + 1) = r.lk))))

\* Returns [s, ret], ret the LineKind.
scan(s, c, ok) ==
  Let(IF need_scan(s) THEN do_scan(s, c, ok) ELSE s, LAMBDA s1 :
    [s |-> s1, ret |-> s1.line_status % (kind_mask + 1)])

definite_kind(s) == IF need_scan(s) THEN -1 ELSE s.line_status % (kind_mask + 1)

is_markup(s, c, ok) ==
  Let(scan(s, c, ok), LAMBDA r : [s |-> r.s, ret |-> r.ret # TEXT])

text_line(s, c, ok) ==
  current_line(vmassert(s, definite_kind(s) = TEXT), c, ok)

\* xmlStream::unescape_in_place(str, len) on the len bytes at buffer[p].
\* Returns [s, ret], ret the new length.
unescape_at(s, p, len) ==
  Let(unescape([i \in 1..len |-> s.buffer[p + i - 1]]), LAMBDA out :
    [s |-> [s EXCEPT !.buffer = [i \in DOMAIN s.buffer |->
                       IF p <= i /\ i < p + Len(out) THEN out[i - p + 1]
                       ELSE IF i = p + Len(out) /\ Len(out) < len THEN NUL
                       ELSE s.buffer[i]]],
     ret |-> Len(out)])

\* The length of _small_attr_index in the ASSERT build.
SMALL_ATTRS == 2

isspace(b) == b \in {" ", "\t", LF, CR}

is_sane_xml_name_start(b) ==
  b \in {"a", "b", "c", "d", "e", "f", "g", "h", "i", "j", "k", "l", "m", "n",
   "o", "p", "q", "r", "s", "t", "u", "v", "w", "x", "y", "z"}
  \/ b \in {"A", "B", "C", "D", "E", "F", "G", "H", "I", "J", "K", "L", "M", "N",
   "O", "P", "Q", "R", "S", "T", "U", "V", "W", "X", "Y", "Z"}
  \/ b = "_"

\* SANE_XML_NAME_EXCLUSIONS: the characters of the Special Six and "=?/".
NameExclusions == {"&", "<", ">", "\"", "'", "=", "?", "/"}

\* The offset from lp of the first byte b at or after lp[from] and before
\* the first NUL there, or -1: strchr(&lp[from], b).
strchr_from(s, from, b) ==
  Let(cstring(s.buffer, s.beg + from), LAMBDA str :
    IF \E i \in 1..Len(str) : str[i] = b
      THEN from + SetMin({i \in 1..Len(str) : str[i] = b}) - 1
      ELSE -1)

\* grow_attrs: twice the index, if the C heap delivers.
grow_attrs(s, ok) ==
  IF ok THEN [s |-> [s EXCEPT !.attr_index_len = 2 * @], ret |-> TRUE]
  ELSE [s |-> s, ret |-> FALSE]

\* _attr_index[aindex] = attr
store_attr(s, aindex, attr) ==
  [s EXCEPT !.attr_index = IF aindex < Len(@) THEN [@ EXCEPT ![aindex + 1] = attr]
                           ELSE Append(@, attr)]

\* The value of the attribute whose name ends at the '=' found at lp[eq]:
\* quoted, or up to the next blank.  Returns [s, ok, scan, value_off, value_len].
parse_value(s, eq) ==
  Let([s EXCEPT !.buffer[s.beg + eq] = NUL], LAMBDA s1 :
  Let(line_byte(s1, eq + 1) = "'", LAMBDA quoted :
  Let(IF quoted THEN eq + 2 ELSE eq + 1, LAMBDA value_off :
  Let(strchr_from(s1, value_off, IF quoted THEN "'" ELSE " "), LAMBDA endp :
    IF ~quoted /\ endp = -1
      THEN [s |-> [s1 EXCEPT !.buffer[s1.beg + s1.line_length] = NUL], ok |-> TRUE,
            scan |-> s1.line_length, value_off |-> value_off,
            value_len |-> s1.line_length - value_off]
    ELSE IF endp = -1
      THEN [s |-> s1, ok |-> FALSE, scan |-> value_off, value_off |-> value_off,
            value_len |-> 0]
    ELSE [s |-> [s1 EXCEPT !.buffer[s1.beg + endp] = NUL], ok |-> TRUE,
          scan |-> endp + 1, value_off |-> value_off,
          value_len |-> endp - value_off]))))

\* One round of the loop of parse_attrs, from a byte lp[scan] that is not
\* a space.  Returns [s, again, scan]; if not again, the parse has failed
\* at scan.
parse_attr(s, scan_, aindex, ok) ==
  Let(IF aindex >= s.attr_index_len THEN grow_attrs(s, ok) ELSE [s |-> s, ret |-> TRUE],
      LAMBDA g :
    IF ~g.ret THEN [s |-> g.s, again |-> FALSE, scan |-> scan_]
    ELSE IF ~is_sane_xml_name_start(line_byte(g.s, scan_))
      THEN [s |-> g.s, again |-> FALSE, scan |-> scan_]
    ELSE Let(strchr_from(g.s, scan_, "="), LAMBDA eq :
      IF eq = -1 THEN [s |-> g.s, again |-> FALSE, scan |-> scan_]
      ELSE Let(parse_value(g.s, eq), LAMBDA v :
        IF ~v.ok THEN [s |-> v.s, again |-> FALSE, scan |-> v.scan]
        ELSE Let(unescape_at(v.s, v.s.beg + v.value_off, v.value_len), LAMBDA u :
          [s |-> [store_attr(u.s, aindex,
                             [name_str |-> u.s.beg + scan_, name_size |-> eq - scan_,
                              value_str |-> u.s.beg + v.value_off, value_size |-> u.ret])
                    EXCEPT !.attr_count = aindex + 1],
           again |-> TRUE, scan |-> v.scan]))))

\* The while loop of parse_attrs.
RECURSIVE parse_loop(_, _, _, _)
parse_loop(s, scan_, aindex, ok) ==
  Let({i \in scan_..(s.line_length - 1) : ~isspace(line_byte(s, i))}, LAMBDA rest_ :
    IF rest_ = {} THEN s
    ELSE Let(parse_attr(s, SetMin(rest_), aindex, ok), LAMBDA r :
      IF r.again THEN parse_loop(r.s, r.scan, aindex + 1, ok)
      ELSE [r.s EXCEPT !.error_offset = r.scan]))

\* With no line current the asserts read past the static empty line.
parse_attrs(s, c, ok) ==
  Let(vmassert(s, s.attr_count < 0), LAMBDA s0 :
  Let(preload_buffer([s0 EXCEPT !.attr_count = 0], c, ok), LAMBDA s1 :
  Let(vmassert(s1, ~definitely_done(s1)
                   /\ line_byte(s1, s1.tag_end) = NUL
                   /\ line_byte(s1, s1.line_length) = NUL), LAMBDA s2 :
    IF s2.failed THEN s2 ELSE parse_loop(s2, s2.tag_end + 1, 0, ok))))

\* Returns [s, ret].
attr_count(s, c, ok) ==
  Let(IF s.attr_count < 0 THEN parse_attrs(s, c, ok) ELSE s, LAMBDA s1 :
    [s |-> vmassert(s1, s1.attr_count >= 0), ret |-> s1.attr_count])

\* What the C string at a pointer reads as; a null pointer is NullPtr.
NullPtr == <<"nullptr">>

tag(s, c, ok) ==
  IF s.tag_offset = 0 THEN [s |-> s, ret |-> NullPtr]
  ELSE Let(preload_buffer(s, c, ok), LAMBDA s1 :
         [s |-> s1, ret |-> IF definitely_done(s1) THEN <<GARBAGE>>
                            ELSE cstring(s1.buffer, s1.beg + s1.tag_offset)])

attr_indexer(s, n, is_value, c, ok) ==
  Let(attr_count(s, c, ok), LAMBDA a :
    IF n < 0 \/ n >= a.ret THEN [s |-> a.s, ret |-> NullPtr, len |-> 0]
    ELSE Let(a.s.attr_index[n + 1], LAMBDA avs :
      [s |-> a.s,
       ret |-> cstring(a.s.buffer, IF is_value THEN avs.value_str ELSE avs.name_str),
       len |-> IF is_value THEN avs.value_size ELSE avs.name_size]))

attr_name(s, n, c, ok) == attr_indexer(s, n, FALSE, c, ok)

attr_value(s, n, c, ok) == attr_indexer(s, n, TRUE, c, ok)

\* Faulty variant: the last attribute of that name, not the first.
attr_index_last(s, name, c, ok) ==
  IF name = NullPtr \/ Len(name) = 0 THEN [s |-> s, ret |-> -1]
  ELSE Let(attr_count(s, c, ok), LAMBDA a :
    Let({n \in 0..(a.ret - 1) :
           /\ a.s.attr_index[n + 1].name_size = Len(name)
           /\ \A i \in 1..Len(name) :
                /\ a.s.attr_index[n + 1].name_str + i - 1 \in DOMAIN a.s.buffer
                /\ a.s.buffer[a.s.attr_index[n + 1].name_str + i - 1] = name[i]},
        LAMBDA ns :
      [s |-> a.s, ret |-> IF ns = {} THEN -1 ELSE -SetMin({-n : n \in ns})]))

\* attr_index(name): the first attribute of that size whose name begins
\* with the bytes of name, or -1.
attr_index(s, name, c, ok) ==
  IF name = NullPtr \/ Len(name) = 0 THEN [s |-> s, ret |-> -1]
  ELSE Let(attr_count(s, c, ok), LAMBDA a :
    Let({n \in 0..(a.ret - 1) :
           /\ a.s.attr_index[n + 1].name_size = Len(name)
           /\ \A i \in 1..Len(name) :
                /\ a.s.attr_index[n + 1].name_str + i - 1 \in DOMAIN a.s.buffer
                /\ a.s.buffer[a.s.attr_index[n + 1].name_str + i - 1] = name[i]},
        LAMBDA ns :
      [s |-> a.s, ret |-> IF ns = {} THEN -1 ELSE SetMin(ns)]))

(***************************************************************************)
(* XMLPartialScanner (xmlinput.cpp).  A format is a sequence of bytes; a   *)
(* pointer into it is an offset from _fmt_base, Null the null pointer.     *)
(* The scanner x carries the stream `in` it queries, the results `out` it  *)
(* has stored through the argument list, and `debug`, whether the build    *)
(* defines ASSERT.  The data pointer `base` is an offset into the buffer   *)
(* of the stream, Null, or EmptyStr for the literal "".                    *)
(***************************************************************************)
Null == 0 - 1

EmptyStr == 0 - 2

\* fmt[p], the terminating NUL included.
fmt_at(x, p) ==
  IF p >= 0 /\ p < Len(x.fmt) THEN x.fmt[p + 1]
  ELSE IF p = Len(x.fmt) THEN NUL ELSE GARBAGE

\* _base[i]
base_at(x, i) ==
  IF x.base >= 0 /\ x.base + i \in DOMAIN x.in.buffer THEN x.in.buffer[x.base + i]
  ELSE IF x.base = EmptyStr /\ i = 0 THEN NUL ELSE GARBAGE

find_char(x, ch, beg, end) ==
  IF \E p \in beg..(end - 1) : fmt_at(x, p) = ch
    THEN SetMin({p \in beg..(end - 1) : fmt_at(x, p) = ch})
    ELSE end

starts_with_char(x, ch, beg, end) == beg < end /\ fmt_at(x, beg) = ch

starts_with_str(x, str, beg, end) ==
  /\ beg + Len(str) <= end
  /\ \A i \in 1..Len(str) : fmt_at(x, beg + i - 1) = str[i]

find_str(x, str, beg, end) ==
  IF \E p \in beg..(end - 1) : starts_with_str(x, str, p, end)
    THEN SetMin({p \in beg..(end - 1) : starts_with_str(x, str, p, end)})
    ELSE end

is_char_class_in(x, chars, beg, end) ==
  \E p \in beg..(end - 1) : fmt_at(x, p) \in chars

\* The escape the format holds at fp, before _fp_limit: [ok, esc_len, unesc].
looking_at_escape(x, fp) ==
  Let(EscapeAt([i \in 1..(IF x.fp_limit > fp THEN x.fp_limit - fp ELSE 0) |->
                  fmt_at(x, fp + i - 1)]), LAMBDA es :
    IF fmt_at(x, fp) # "&" \/ es = {}
      THEN [ok |-> FALSE, esc_len |-> 0, unesc |-> NUL]
      ELSE Let(CHOOSE e \in es : TRUE, LAMBDA e :
             [ok |-> TRUE, esc_len |-> Len(e.src), unesc |-> e.chr]))

skip_plain_chars(x, fp) ==
  Let({p \in fp..(x.fp_limit - 1) :
         \/ fmt_at(x, p) \in {"*", " ", "%"}
         \/ fmt_at(x, p) = "&" /\ looking_at_escape(x, p).ok}, LAMBDA stops :
    IF stops # {} THEN SetMin(stops)
    ELSE IF fp < x.fp_limit THEN x.fp_limit ELSE fp)

skip_conv(x, fp, skipc) ==
  IF fp < x.fp_limit /\ fmt_at(x, fp) = "%"
    THEN Let(SetMin({p \in (fp + 1)..x.fp_limit :
                       p = x.fp_limit \/ fmt_at(x, p) \notin {"l", "*"}}), LAMBDA p :
           IF p < x.fp_limit /\ fmt_at(x, p) = skipc THEN p + 1 ELSE fp)
    ELSE fp

\* The %n conversions at fp are skipped one after the other.
RECURSIVE skip_convs(_, _, _)
skip_convs(x, fp, skipc) ==
  IF skip_conv(x, fp, skipc) > fp THEN skip_convs(x, skip_conv(x, fp, skipc), skipc)
  ELSE fp

\* [ret, length]: the literal name of the segment, ret = Null if it has none.
literal_name(x) ==
  Let(skip_convs(x, x.fp_base, "n"), LAMBDA result :
    Let(skip_plain_chars(x, result), LAMBDA fp1 :
      IF skip_convs(x, fp1, "n") = x.fp_limit /\ fp1 - result > 0
        THEN [ret |-> result, length |-> fp1 - result]
        ELSE [ret |-> Null, length |-> 0]))

\* fatal() in the ASSERT build, and false.
bad_scanf_syntax(x) ==
  [x |-> IF x.debug
           THEN [x EXCEPT !.fp0 = IF x.fp0 = Null THEN x.fp_base ELSE x.fp0,
                          !.in = [x.in EXCEPT !.failed = TRUE]]
           ELSE x,
   ret |-> FALSE]

\* assert(cond), compiled only in the ASSERT build.
scanner_assert(x, cond) ==
  IF x.debug /\ ~cond THEN [x EXCEPT !.in = [x.in EXCEPT !.failed = TRUE]] ELSE x

next_segment_T(x0) ==
  Let(scanner_assert(x0, x0.which = NUL), LAMBDA xa :
  Let(find_char(xa, " ", 0, Len(xa.fmt)), LAMBDA lim :
  Let([xa EXCEPT !.fp_base = 0,
                 !.fp_next_base = IF lim < Len(xa.fmt) THEN lim + 1 ELSE lim,
                 !.total_match = (fmt_at(xa, lim - 1) = "?"),
                 !.fp_limit = IF fmt_at(xa, lim - 1) = "?" THEN lim - 1 ELSE lim],
      LAMBDA x :
    IF \/ x.fp_base = x.fp_limit
       \/ (~is_sane_xml_name_start(fmt_at(x, x.fp_base))
             /\ fmt_at(x, x.fp_base) \notin {"%", "*", NUL})
       \/ is_char_class_in(x, NameExclusions, x.fp_base, x.fp_limit)
      THEN bad_scanf_syntax(x)
      ELSE [x |-> [x EXCEPT !.which = "T"], ret |-> TRUE])))

next_segment_A(x0) ==
  Let(scanner_assert(x0, x0.which \in {"T", "V"}), LAMBDA xa :
  Let(SetMin({p \in xa.fp_next_base..Len(xa.fmt) :
                ~starts_with_char(xa, " ", p, Len(xa.fmt))}), LAMBDA b :
    IF b = Len(xa.fmt)
      THEN [x |-> [xa EXCEPT !.fp_base = b, !.fp_limit = b, !.which = "E"],
            ret |-> FALSE]
    ELSE
  Let(find_str(xa, <<"=", "'">>, b, Len(xa.fmt)), LAMBDA lim :
  Let([xa EXCEPT !.which = "F", !.fp_base = b, !.fp_next_base = lim,
                 !.total_match = (fmt_at(xa, lim - 1) = "?"),
                 !.fp_limit = IF fmt_at(xa, lim - 1) = "?" THEN lim - 1 ELSE lim],
      LAMBDA x :
    IF (~x.total_match /\ x.fp_limit = x.fp_base) \/ x.fp_next_base = Len(x.fmt)
      THEN bad_scanf_syntax(x)
    ELSE IF \/ ~(\/ is_sane_xml_name_start(fmt_at(x, x.fp_base))
                 \/ fmt_at(x, x.fp_base) \in {"%", "*", NUL}
                 \/ x.fp_limit = x.fp_base)
            \/ is_char_class_in(x, NameExclusions, x.fp_base, x.fp_limit)
      THEN bad_scanf_syntax(x)
    ELSE [x |-> [x EXCEPT !.fp_next_base = x.fp_next_base + 2, !.which = "A"],
          ret |-> TRUE]))))

next_segment_V(x0) ==
  Let(scanner_assert(x0, x0.which = "A"), LAMBDA xa :
  Let(find_char(xa, "'", xa.fp_next_base, Len(xa.fmt)), LAMBDA lim :
  Let([xa EXCEPT !.which = "F", !.fp_base = xa.fp_next_base, !.fp_limit = lim],
      LAMBDA x :
    IF lim = Len(x.fmt) THEN bad_scanf_syntax(x)
    ELSE [x |-> [x EXCEPT !.fp_next_base = lim + 1, !.which = "V"],
          ret |-> TRUE])))

\* next_segment(which): [x, ret].  In case 'T' the statement `_which == 'F';`
\* assigns nothing.
next_segment(x0, w) ==
  IF x0.which = "F" THEN [x |-> x0, ret |-> FALSE]
  ELSE Let([x0 EXCEPT !.fp = Null, !.fp0 = Null], LAMBDA x :
         IF w = "T" THEN next_segment_T(x)
         ELSE IF w = "A" THEN next_segment_A(x)
         ELSE next_segment_V(x))

load_common(x, attr_num, base, limit) ==
  [x EXCEPT !.attr_num = attr_num, !.base = base, !.limit = limit, !.scan = 0]

\* XMLPartialScanner(in, fmt, fmt_len).  The ASSERT build initializes the
\* fields; the other build leaves them as they are, of which _which is read
\* before it is assigned: which0 is what it then holds.
XMLPartialScanner(s, fmt_, debug, which0) ==
  next_segment(
    [in |-> s, fmt |-> fmt_, debug |-> debug, out |-> <<>>,
     fp_base |-> Null, fp_limit |-> Null, fp_next_base |-> Null,
     total_match |-> FALSE, prematch0 |-> Null, prematch1 |-> Null,
     fp |-> Null, fp0 |-> Null, which |-> IF debug THEN NUL ELSE which0,
     attr_num |-> 0 - 1, base |-> Null, limit |-> 0, scan |-> 0, last_n |-> 0],
    "T").x

is_done(x) == x.which = "E"

load_for_missing_attr(x) ==
  load_common(scanner_assert(x, x.total_match), 0 - 1, Null, 0)

load_tag(x0, c, ok) ==
  Let(scanner_assert(x0, x0.which = "T"), LAMBDA x :
  Let(tag(x.in, c, ok), LAMBDA t :
    IF t.ret = NullPtr
      THEN load_common([x EXCEPT !.in = t.s], 0 - 1, EmptyStr, 0)
      ELSE load_common([x EXCEPT !.in = t.s], 0 - 1,
                       t.s.beg + t.s.tag_offset, Len(t.ret))))

load_attr_or_value(x, attr_num, is_value, c, ok) ==
  IF attr_num < 0 THEN load_for_missing_attr(x)
  ELSE Let(attr_indexer(x.in, attr_num, is_value, c, ok), LAMBDA a :
    IF a.ret = NullPtr
      THEN load_common([x EXCEPT !.in = [a.s EXCEPT !.failed = TRUE]],
                       attr_num, Null, 0)
      ELSE load_common([x EXCEPT !.in = a.s], attr_num,
                       IF is_value THEN a.s.attr_index[attr_num + 1].value_str
                       ELSE a.s.attr_index[attr_num + 1].name_str,
                       Len(a.ret)))

load_attr(x, attr_num, c, ok) ==
  load_attr_or_value(scanner_assert(x, x.which = "A"), attr_num, FALSE, c, ok)

load_value(x, attr_num, c, ok) ==
  load_attr_or_value(scanner_assert(x, x.which = "V"), attr_num, TRUE, c, ok)

\* What a stored char* reads as.
PtrString(s, p) ==
  IF p = Null THEN NullPtr ELSE IF p = EmptyStr THEN <<>> ELSE cstring(s.buffer, p)

\* DO_SCANF_OPTIONS, in its order.
ScanfOptions ==
  <<[what |-> <<"*">>, type |-> "none", matcher |-> "match_all"],
    [what |-> <<" ">>, type |-> "none", matcher |-> "match_spaces"],
    [what |-> <<"%", "n">>, type |-> "int", matcher |-> "match_position"],
    [what |-> <<"%", "l", "n">>, type |-> "int", matcher |-> "match_position"],
    [what |-> <<"%", "*", "n">>, type |-> "none", matcher |-> "match_position"],
    [what |-> <<"%", "p">>, type |-> "ptr", matcher |-> "match_strptr"],
    [what |-> <<"%", "0", "p">>, type |-> "ptr", matcher |-> "match_strptr"],
    [what |-> <<"%", "d">>, type |-> "int", matcher |-> "match_strtol"],
    [what |-> <<"%", "l", "d">>, type |-> "int", matcher |-> "match_strtol"],
    [what |-> <<"%", "l", "l", "d">>, type |-> "int", matcher |-> "match_strtol"],
    [what |-> <<"%", "x">>, type |-> "int", matcher |-> "match_strtol"],
    [what |-> <<"%", "l", "x">>, type |-> "int", matcher |-> "match_strtol"],
    [what |-> <<"%", "l", "l", "x">>, type |-> "int", matcher |-> "match_strtol"],
    [what |-> <<"%", "i">>, type |-> "int", matcher |-> "match_strtol"],
    [what |-> <<"%", "l", "i">>, type |-> "int", matcher |-> "match_strtol"],
    [what |-> <<"%", "l", "l", "i">>, type |-> "int", matcher |-> "match_strtol"],
    [what |-> <<"%", "f">>, type |-> "int", matcher |-> "match_strtod"],
    [what |-> <<"%", "l", "f">>, type |-> "int", matcher |-> "match_strtod"],
    [what |-> <<"%", "%">>, type |-> "none", matcher |-> "match_literal"],
    [what |-> <<"%">>, type |-> "none", matcher |-> "bad_percent_pattern"],
    [what |-> <<>>, type |-> "none", matcher |-> "match_literal"]>>

store_result(x, type, result) ==
  IF type = "none" THEN x
  ELSE [x EXCEPT !.out = Append(x.out, [t |-> type, v |-> result])]

is_first_format(x) == x.fp0 = x.fp_base

is_last_format(x) == x.fp = x.fp_limit

\* Whether consume_format(what) would succeed at _fp.
consume_format(x, what) == starts_with_str(x, what, x.fp, x.fp_limit)

must_be_simple(x) ==
  IF x.which = "V" /\ ~x.total_match THEN [x |-> x, ret |-> TRUE]
  ELSE bad_scanf_syntax(x)

must_be_last(x) ==
  IF is_last_format(x) THEN [x |-> x, ret |-> TRUE] ELSE bad_scanf_syntax(x)

prematch_char(x) ==
  Let(skip_conv(x, x.fp, "n"), LAMBDA lafp :
    IF lafp >= x.fp_limit THEN [x |-> x, ret |-> NUL]
    ELSE Let(fmt_at(x, lafp), LAMBDA limitc :
      IF limitc = "%" /\ fmt_at(x, lafp + 1) = "%"
        THEN [x |-> [x EXCEPT !.prematch0 = lafp, !.prematch1 = lafp + 2],
              ret |-> limitc]
      ELSE IF limitc \in {"%", "*", " "}
        THEN [x |-> [x EXCEPT !.prematch0 = lafp, !.prematch1 = lafp + 1],
              ret |-> " "]
      ELSE IF limitc = "&"
        THEN Let(looking_at_escape(x, lafp), LAMBDA e :
               [x |-> [x EXCEPT !.prematch0 = lafp,
                                !.prematch1 = lafp + (IF e.ok THEN e.esc_len ELSE 1)],
                ret |-> IF e.ok THEN e.unesc ELSE limitc])
      ELSE [x |-> [x EXCEPT !.prematch0 = lafp, !.prematch1 = lafp + 1],
            ret |-> limitc]))

match_all(x) ==
  Let(must_be_last(x), LAMBDA m :
    IF ~m.ret THEN m ELSE [x |-> [m.x EXCEPT !.scan = m.x.limit], ret |-> TRUE])

\* The first offset at or after _scan and before _limit at which stop holds,
\* _limit if there is none.
scan_until(x, stop(_)) ==
  Let({i \in x.scan..(x.limit - 1) : stop(base_at(x, i))}, LAMBDA stops :
    IF stops # {} THEN SetMin(stops)
    ELSE IF x.scan < x.limit THEN x.limit ELSE x.scan)

match_spaces(x) ==
  Let(must_be_simple(x), LAMBDA m :
    IF ~m.ret THEN m
    ELSE [x |-> [m.x EXCEPT !.scan = scan_until(m.x, LAMBDA b : ~isspace(b))],
          ret |-> TRUE])

match_position(x, type) ==
  IF is_first_format(x)
    THEN IF x.which = "T" THEN bad_scanf_syntax(x)
         ELSE [x |-> [store_result(x, type, x.attr_num) EXCEPT
                        !.scan = IF is_last_format(x) THEN x.limit ELSE x.scan],
               ret |-> TRUE]
  ELSE Let(IF x.total_match THEN must_be_simple(x) ELSE [x |-> x, ret |-> TRUE],
           LAMBDA m :
         IF ~m.ret THEN m
         ELSE [x |-> [store_result(m.x, type, m.x.scan - m.x.last_n) EXCEPT
                        !.last_n = m.x.scan],
               ret |-> TRUE])

\* _base[_scan++] = '\0'
overwrite_scan(x) ==
  [x EXCEPT !.in = [x.in EXCEPT !.buffer =
                      [i \in DOMAIN x.in.buffer |->
                         IF i = x.base + x.scan THEN NUL ELSE x.in.buffer[i]]],
            !.scan = x.scan + 1]

match_strptr(x0, what) ==
  Let(what = <<"%", "0", "p">> /\ x0.which = "V", LAMBDA null_terminate :
  Let(prematch_char(x0), LAMBDA pm :
  Let(IF pm.ret # NUL \/ pm.x.scan > 0 THEN must_be_simple(pm.x)
      ELSE [x |-> pm.x, ret |-> TRUE], LAMBDA m :
    IF ~m.ret THEN m
    ELSE IF m.x.base = Null
      THEN [x |-> store_result(scanner_assert(m.x, pm.ret = NUL /\ m.x.total_match),
                               "ptr", Null),
            ret |-> TRUE]
    ELSE
  Let(IF m.x.base = EmptyStr THEN EmptyStr ELSE m.x.base + m.x.scan, LAMBDA result :
  Let(IF pm.ret = NUL THEN [m.x EXCEPT !.scan = m.x.limit]
      ELSE IF pm.ret = " "
        THEN Let([m.x EXCEPT !.scan = scan_until(m.x, LAMBDA b : isspace(b)),
                             !.prematch0 = Null], LAMBDA x1 :
               IF null_terminate /\ x1.scan < x1.limit THEN overwrite_scan(x1)
               ELSE x1)
      ELSE Let([m.x EXCEPT !.scan = scan_until(m.x, LAMBDA b : b = pm.ret)],
               LAMBDA x1 :
             IF x1.scan >= x1.limit THEN [x1 EXCEPT !.prematch0 = Null]
             ELSE IF null_terminate THEN overwrite_scan(x1)
             ELSE x1), LAMBDA x2 :
    [x |-> store_result(x2, "ptr", result), ret |-> TRUE])))))

\* The value of a digit, 99 for a byte that is none.
DigitVal(b) ==
  Let(<<"0", "1", "2", "3", "4", "5", "6", "7", "8", "9",
        "a", "b", "c", "d", "e", "f">>, LAMBDA lower :
  Let(<<"0", "1", "2", "3", "4", "5", "6", "7", "8", "9",
        "A", "B", "C", "D", "E", "F">>, LAMBDA upper :
    IF \E i \in 1..16 : lower[i] = b \/ upper[i] = b
      THEN (CHOOSE i \in 1..16 : lower[i] = b \/ upper[i] = b) - 1
      ELSE 99))

RECURSIVE DigitsValue(_, _)
DigitsValue(ds, radix) ==
  IF ds = <<>> THEN 0
  ELSE DigitsValue(SubSeq(ds, 1, Len(ds) - 1), radix) * radix + DigitVal(ds[Len(ds)])

\* The length of the longest prefix of str from index i on whose bytes
\* all satisfy good.
RunLength(str, i, good(_)) ==
  Let({j \in i..Len(str) : ~good(str[j])}, LAMBDA bad :
    IF bad = {} THEN (IF i <= Len(str) THEN Len(str) - i + 1 ELSE 0)
    ELSE SetMin(bad) - i)

\* strtoll(str, &q, radix) on values that fit: [val, len], len = q - p.
strtoll(str, radix) ==
  Let(1 + RunLength(str, 1, LAMBDA b : isspace(b)), LAMBDA i0 :
  Let(IF i0 <= Len(str) /\ str[i0] \in {"+", "-"} THEN i0 + 1 ELSE i0, LAMBDA i :
  Let(/\ radix \in {0, 16} /\ i + 2 <= Len(str)
      /\ str[i] = "0" /\ str[i + 1] \in {"x", "X"}
      /\ DigitVal(str[i + 2]) < 16, LAMBDA prefixed :
  Let(IF radix # 0 THEN radix
      ELSE IF prefixed THEN 16
      ELSE IF i <= Len(str) /\ str[i] = "0" THEN 8 ELSE 10, LAMBDA r :
  Let(IF prefixed THEN i + 2 ELSE i, LAMBDA start :
  Let(RunLength(str, start, LAMBDA b : DigitVal(b) < r), LAMBDA n :
    IF n = 0 THEN [val |-> 0, len |-> 0]
    ELSE [val |-> (IF i > i0 /\ str[i0] = "-" THEN 0 - 1 ELSE 1)
                    * DigitsValue(SubSeq(str, start, start + n - 1), r),
          len |-> start + n - 1]))))))

\* (long long)strtod(str, &q) on decimal numerals without exponent.
strtod(str) ==
  Let(strtoll(str, 10), LAMBDA whole :
  Let(1 + RunLength(str, 1, LAMBDA b : isspace(b)), LAMBDA i0 :
  Let(IF i0 <= Len(str) /\ str[i0] \in {"+", "-"} THEN i0 + 1 ELSE i0, LAMBDA i :
  Let(IF whole.len = 0 THEN i ELSE whole.len + 1, LAMBDA dot :
  Let(IF dot <= Len(str) /\ str[dot] = "."
        THEN RunLength(str, dot + 1, LAMBDA b : DigitVal(b) < 10) ELSE 0, LAMBDA frac :
    IF whole.len = 0 /\ frac = 0 THEN [val |-> 0, len |-> 0]
    ELSE IF dot <= Len(str) /\ str[dot] = "."
      THEN [val |-> whole.val, len |-> dot + frac]
    ELSE whole)))))

match_strtol(x, what) ==
  Let(must_be_simple(x), LAMBDA m :
    IF ~m.ret THEN m
    ELSE Let(strtoll(PtrString(m.x.in, m.x.base + m.x.scan),
                     IF what[Len(what)] = "d" THEN 10
                     ELSE IF what[Len(what)] = "x" THEN 16 ELSE 0), LAMBDA r :
      IF r.len = 0 THEN [x |-> m.x, ret |-> FALSE]
      ELSE [x |-> store_result([m.x EXCEPT !.scan = m.x.scan + r.len], "int", r.val),
            ret |-> TRUE]))

match_strtod(x) ==
  Let(must_be_simple(x), LAMBDA m :
    IF ~m.ret THEN m
    ELSE Let(strtod(PtrString(m.x.in, m.x.base + m.x.scan)), LAMBDA r :
      IF r.len = 0 THEN [x |-> m.x, ret |-> FALSE]
      ELSE [x |-> store_result([m.x EXCEPT !.scan = m.x.scan + r.len], "int", r.val),
            ret |-> TRUE]))

\* match_literal: x.fp has been advanced past "%%", or not at all.
match_literal(x0) ==
  IF x0.fp0 = x0.prematch0
    THEN [x |-> [x0 EXCEPT !.fp = x0.prematch1, !.prematch0 = Null], ret |-> TRUE]
  ELSE
  Let(IF fmt_at(x0, x0.fp0) = "%" THEN x0.fp0 + 1 ELSE x0.fp0, LAMBDA p :
    IF x0.which # "V" /\ ~is_sane_xml_name_start(fmt_at(x0, p))
      THEN bad_scanf_syntax(x0)
    ELSE
  Let(skip_plain_chars(x0, x0.fp), LAMBDA q :
  Let(looking_at_escape(x0, p), LAMBDA e :
  Let(p = q /\ e.ok, LAMBDA escaped :
  Let(IF escaped THEN <<e.unesc>>
      ELSE [i \in 1..(q - p) |-> fmt_at(x0, p + i - 1)], LAMBDA lit :
  Let(scanner_assert([x0 EXCEPT !.fp = IF escaped THEN q + e.esc_len ELSE q],
                     escaped \/ p < q), LAMBDA x :
    IF x.base = Null
      THEN Let(scanner_assert(x, x.total_match), LAMBDA xa :
             IF xa.which = "A"
               THEN [x |-> [xa EXCEPT !.scan = xa.scan + 1], ret |-> TRUE]
               ELSE must_be_simple(xa))
    ELSE IF x.scan + Len(lit) > x.limit THEN [x |-> x, ret |-> FALSE]
    ELSE IF \E i \in 1..Len(lit) : base_at(x, x.scan + i - 1) # lit[i]
      THEN [x |-> x, ret |-> FALSE]
    ELSE [x |-> [x EXCEPT !.scan = x.scan + Len(lit)], ret |-> TRUE]))))))

bad_percent_pattern(x) == bad_scanf_syntax(x)

\* One turn of the loop of match: the first option of DO_SCANF_OPTIONS whose
\* first byte is the key and which the format holds at _fp.
match_option(x0) ==
  Let([x0 EXCEPT !.fp0 = x0.fp], LAMBDA x :
  Let(IF fmt_at(x, x.fp) \in {"%", "*", " "} THEN fmt_at(x, x.fp) ELSE NUL,
      LAMBDA keyc :
  Let({i \in 1..Len(ScanfOptions) :
         /\ (IF ScanfOptions[i].what = <<>> THEN NUL ELSE ScanfOptions[i].what[1]) = keyc
         /\ consume_format(x, ScanfOptions[i].what)}, LAMBDA is :
    IF is = {} THEN bad_scanf_syntax(x)
    ELSE
  Let(ScanfOptions[SetMin(is)], LAMBDA o :
  Let([x EXCEPT !.fp = x.fp + Len(o.what)], LAMBDA x1 :
    IF o.matcher = "match_all" THEN match_all(x1)
    ELSE IF o.matcher = "match_spaces" THEN match_spaces(x1)
    ELSE IF o.matcher = "match_position" THEN match_position(x1, o.type)
    ELSE IF o.matcher = "match_strptr" THEN match_strptr(x1, o.what)
    ELSE IF o.matcher = "match_strtol" THEN match_strtol(x1, o.what)
    ELSE IF o.matcher = "match_strtod" THEN match_strtod(x1)
    ELSE IF o.matcher = "match_literal" THEN match_literal(x1)
    ELSE bad_percent_pattern(x1))))))

RECURSIVE match_loop(_)
match_loop(x) ==
  IF x.fp < x.fp_limit
    THEN Let(match_option(x), LAMBDA m : IF ~m.ret THEN m ELSE match_loop(m.x))
    ELSE [x |-> x, ret |-> x.scan = x.limit \/ x.total_match]

match(x) == match_loop([x EXCEPT !.fp = x.fp_base, !.scan = 0, !.last_n = 0])

finish_segment(x) ==
  IF x.which = "F" THEN [x |-> x, ret |-> FALSE]
  ELSE Let(match(x), LAMBDA m :
    [x |-> IF m.x.debug
             THEN [m.x EXCEPT !.fp = Null, !.fp_base = Null, !.fp_limit = Null]
             ELSE m.x,
     ret |-> m.ret /\ ~(m.x.which = "T" /\ ~m.x.total_match /\ m.x.limit = 0)])

\* The loop of va_scan_elem over the attribute segments: [x, next_attr].
RECURSIVE va_scan_loop(_, _, _, _, _, _)
va_scan_loop(x0, next_attr, saw_literal_name, saw_sequential_name, c, ok) ==
  Let(next_segment(x0, "A"), LAMBDA a :
    IF ~a.ret THEN [x |-> a.x, next_attr |-> next_attr]
    ELSE
  Let(literal_name(a.x), LAMBDA fn :
  Let(IF fn.ret # Null
        THEN attr_index(a.x.in, [i \in 1..fn.length |-> fmt_at(a.x, fn.ret + i - 1)],
                        c, ok)
        ELSE Let(attr_count(a.x.in, c, ok), LAMBDA n :
               [s |-> n.s, ret |-> IF next_attr >= n.ret THEN 0 - 1 ELSE next_attr]),
      LAMBDA this_attr :
  Let(IF fn.ret # Null THEN next_attr ELSE next_attr + 1, LAMBDA next1 :
  Let([a.x EXCEPT !.in = this_attr.s], LAMBDA x1 :
    IF (saw_literal_name \/ fn.ret # Null) /\ (saw_sequential_name \/ fn.ret = Null)
      THEN [x |-> bad_scanf_syntax(x1).x, next_attr |-> next1]
    ELSE IF this_attr.ret < 0 /\ ~x1.total_match
      THEN [x |-> x1, next_attr |-> next1]
    ELSE
  Let(finish_segment(load_attr(x1, this_attr.ret, c, ok)), LAMBDA fa :
    IF ~fa.ret THEN [x |-> fa.x, next_attr |-> next1]
    ELSE
  Let(next_segment(fa.x, "V"), LAMBDA v :
    IF ~v.ret THEN [x |-> v.x, next_attr |-> next1]
    ELSE
  Let(finish_segment(load_value(v.x, this_attr.ret, c, ok)), LAMBDA fv :
    IF ~fv.ret THEN [x |-> fv.x, next_attr |-> next1]
    ELSE va_scan_loop(fv.x, next1, saw_literal_name \/ fn.ret # Null,
                      saw_sequential_name \/ fn.ret = Null, c, ok)))))))))

\* va_scan_elem(next_attr, format, ap): [s, ret, next_attr, out], out the
\* results stored through ap, in their order.
va_scan_elem(s, next_attr, format, debug, which0, c, ok) ==
  Let(is_markup(s, c, ok), LAMBDA mk :
    IF ~mk.ret /\ ~\E i \in 1..Len(format) : format[i] = "?"
      THEN [s |-> mk.s, ret |-> FALSE, next_attr |-> next_attr, out |-> <<>>]
    ELSE
  Let(finish_segment(load_tag(XMLPartialScanner(mk.s, format, debug, which0), c, ok)),
      LAMBDA t :
    IF ~t.ret
      THEN [s |-> t.x.in, ret |-> FALSE, next_attr |-> next_attr, out |-> t.x.out]
    ELSE
  Let(va_scan_loop(t.x, next_attr, FALSE, next_attr # 0, c, ok), LAMBDA r :
    [s |-> r.x.in, ret |-> is_done(r.x), next_attr |-> r.next_attr,
     out |-> r.x.out])))

\* scan_elem(next_attr, format, ...); scan_elem(format, ...) is the call with
\* next_attr = 0 whose next_attr the caller does not see.
scan_elem(s, next_attr, format, debug, which0, c, ok) ==
  Let(is_markup(s, c, ok), LAMBDA mk :
    IF ~mk.ret /\ ~\E i \in 1..Len(format) : format[i] = "?"
      THEN [s |-> mk.s, ret |-> FALSE, next_attr |-> next_attr, out |-> <<>>]
    ELSE va_scan_elem(mk.s, next_attr, format, debug, which0, c, ok))

\* xmlInput::next and xmlInput::done
xml_next(s, c, ok) == next([s EXCEPT !.line_status = 0], c, ok)

xml_done(s, c, ok) == done([s EXCEPT !.line_status = 0], c, ok)

(***************************************************************************)
(* Construction.                                                           *)
(***************************************************************************)
\* inputStream(): nothing buffered, no input.  `base` is the caller's slice.
new_stream(kind, base) ==
  [kind |-> kind, base |-> base, offset |-> 0,
   buffer |-> [i \in 0..(-1) |-> GARBAGE], buffer_size |-> 0,
   content_end |-> 0, beg |-> 0, end |-> 0, must_free |-> FALSE,
   position |-> 0, lineno |-> 0, line_ending |-> 0,
   did_read |-> FALSE, failed |-> FALSE,
   line_status |-> 0, line_length |-> 0, tag_offset |-> 0, tag_end |-> 0,
   error_offset |-> 0, attr_count |-> 0,
   attr_index |-> <<>>, attr_index_len |-> SMALL_ATTRS]

\* inputStream(chars, length) inhales the string by pushback_input;
\* inputStream(BlockInput*) and BlockInputStream<MemoryInput> set_input.
construct(kind, chars, u, ok) ==
  IF kind = "string"
    THEN pushback_input(new_stream(kind, chars), chars, FALSE, u, 1, ok)
    ELSE clear_buffer(new_stream(kind, chars))

Kinds == {"string", "MemoryInput", "FileInput"}

Alphabet == {"a", LF, CR}

RECURSIVE Strings(_)
Strings(n) ==
  IF n = 0 THEN {<<>>}
  ELSE LET S == Strings(n - 1)
       IN S \cup {Append(x, b) : x \in {y \in S : Len(y) = n - 1}, b \in Alphabet}

Rep(n) == [i \in 1..n |-> "a"]

\* Inputs that make the buffer wrap, compact and grow.
LongInputs ==
  {Rep(SMALL_SIZE + 1), Rep(BIG_SIZE + 1),
   Rep(SMALL_SIZE - 1) \o <<LF, "a", "a">>,
   Rep(SMALL_SIZE - 2) \o <<LF, "a", "a", LF>>,
   Rep(SMALL_SIZE - 2) \o <<CR, LF, "a">>}

\* The inputs of the scenarios "ab LF cd CR LF ef" and "one LF two LF",
\* with lines told apart by their lengths.
Scenarios ==
  {<<"a", LF, "a", "a", CR, LF, "a">>,
   <<"a", LF, "a", "a", LF>>,
   <<"a", CR, LF, "a", CR>>,
   <<CR, LF, "a">>}

\* One line with no LF, longer than BIG_SIZE, its bytes told apart.
LongLine == [i \in 1..(BIG_SIZE + 3) |-> IF i % 2 = 1 THEN "a" ELSE "b"]

\* Lines with a CR that no LF follows.
LoneCRInputs == {<<"a", CR, "a", LF>>}

\* Lines with NUL bytes in them, ended by LF, by CR LF and by the end of
\* the input.
NULInputs == {<<"a", NUL, "a", LF, NUL>>, <<NUL, CR, LF, "a">>}

Inputs ==
  Strings(MaxLen) \cup Scenarios \cup LongInputs \cup {LongLine}
    \cup LoneCRInputs \cup NULInputs

PushStrings == {<<"b">>, <<"b", LF>>, <<CR, LF>>}

\* What the read of chars[length-1] may yield for partial_line.
OutOfRange(chars) == IF Len(chars) = 0 THEN BOOLEAN ELSE {FALSE}

Chunks(s) == IF s.kind = "FileInput" THEN 1..MaxChunk ELSE {MaxChunk}

\* A call that only preloads reads, and allocates, only if need_to_read.
PreloadChunks(s) == IF need_to_read(s) THEN Chunks(s) ELSE {MaxChunk}

PreloadOks(s) == IF need_to_read(s) THEN BOOLEAN ELSE {TRUE}

(***************************************************************************)
(* The byte stream as the caller sees it: `rest` is what is still to be    *)
(* delivered, from the first byte of the current line on.                  *)
(***************************************************************************)
HasLF(r) == \E i \in 1..Len(r) : r[i] = LF

FirstLF(r) == SetMin({i \in 1..Len(r) : r[i] = LF})

FirstSeg(r) == IF HasLF(r) THEN SubSeq(r, 1, FirstLF(r) - 1) ELSE r

DropFirstLine(r) == IF HasLF(r) THEN SubSeq(r, FirstLF(r) + 1, Len(r)) ELSE <<>>

NumLF(r) == Cardinality({i \in 1..Len(r) : r[i] = LF})

\* The buffered bytes that follow the current line and its terminator.
AfterCurrent(s) ==
  [i \in 1..(s.content_end - (s.end + 1)) |-> s.buffer[s.end + i]]

\* The bytes of the source that read_input has not delivered yet.
Unread(s) ==
  IF s.kind = "string" THEN <<>> ELSE SubSeq(s.base, s.offset + 1, Len(s.base))

\* The buffered bytes from the current line on, as they were before
\* set_buffer_content put NULs over the line's terminator, and without the
\* LF that fill_buffer adds after a final partial line.
Buffered(s) ==
  LET cur == have_current_line(s)
      n == (s.content_end - s.beg) - (IF cur /\ s.line_ending = 0 THEN 1 ELSE 0)
  IN [i \in 1..n |->
        LET j == s.beg + i - 1
        IN IF cur /\ j = s.end THEN LF
           ELSE IF cur /\ s.line_ending = 2 /\ j = s.end - 1 THEN CR
           ELSE s.buffer[j]]

\* All the bytes the stream has yet to deliver.
Remaining(s) == IF definitely_done(s) THEN <<>> ELSE Buffered(s) \o Unread(s)

\* A call begins with no read_input made yet.
call(s) == [s EXCEPT !.did_read = FALSE]

\* What the last mutating call was, what it was given and what it returned;
\* kind is what the first scan() of the current line returned, -1 before it.
NoCall ==
  [op |-> "init", ret |-> FALSE, chars |-> <<>>, overwrite |-> FALSE,
   had |-> FALSE, copy |-> <<>>, endl |-> <<>>, old_line |-> <<>>,
   oldcll |-> 0, lp |-> <<>>, newcll |-> 0, before |-> <<>>, lineno0 |-> 0,
   curline |-> <<>>, nextline |-> <<>>, nextdone |-> FALSE, kind |-> -1,
   out |-> <<>>, debug |-> TRUE, which0 |-> NUL, next_attr0 |-> 0,
   next_attr |-> 0]

\* The line a next() in state s would make current, the heap delivering.
LineAfter(s, c) == current_line(next(s, c, TRUE).s, c, TRUE).ret

DoneAfter(s, c) == definitely_done(next(s, c, TRUE).s)

Init ==
  /\ \E kind \in Kinds, chars \in Inputs, ok \in BOOLEAN :
     \E u \in OutOfRange(chars) :
       /\ st = call(construct(kind, chars, u, ok))
       /\ rest = chars
       /\ pat = chars
  /\ last = NoCall
  /\ npush = 0
  /\ ntrue = 0
  /\ stopped = FALSE

CurrentLine ==
  /\ ~st.failed
  /\ \E c \in PreloadChunks(st), ok \in PreloadOks(st) :
       LET r == current_line(call(st), c, ok)
       IN st' = call(r.s)
  /\ UNCHANGED <<last, rest, pat, npush, ntrue, stopped>>

CurrentLineLength ==
  /\ ~st.failed
  /\ \E c \in PreloadChunks(st), ok \in PreloadOks(st) :
       LET r == current_line_length(call(st), c, ok)
       IN st' = call(r.s)
  /\ UNCHANGED <<last, rest, pat, npush, ntrue, stopped>>

CurrentLineEnding ==
  /\ ~st.failed
  /\ \E c \in PreloadChunks(st), ok \in PreloadOks(st) :
       LET r == current_line_ending(call(st), c, ok)
       IN st' = call(r.s)
  /\ UNCHANGED <<last, rest, pat, npush, ntrue, stopped>>

Done ==
  /\ ~st.failed
  /\ \E c \in PreloadChunks(st), ok \in PreloadOks(st) :
       LET r == done(call(st), c, ok)
       IN st' = call(r.s)
  /\ UNCHANGED <<last, rest, pat, npush, ntrue, stopped>>

SaveLine ==
  /\ ~st.failed
  /\ \E c \in PreloadChunks(st), ok \in PreloadOks(st) :
       LET r == save_line(call(st), c, ok)
       IN st' = call(r.s)
  /\ UNCHANGED <<last, rest, pat, npush, ntrue, stopped>>

BufferedAfterCurrent ==
  /\ ~st.failed
  /\ \E c \in PreloadChunks(st), ok \in PreloadOks(st) :
       LET r == buffered_after_current(call(st), c, ok)
       IN st' = call(r.s)
  /\ UNCHANGED <<last, rest, pat, npush, ntrue, stopped>>

Next_ ==
  /\ ~st.failed
  /\ \E c \in Chunks(st), ok \in BOOLEAN :
       Let(next(call(st), c, ok), LAMBDA r :
         /\ st' = call(r.s)
         /\ last' = [NoCall EXCEPT !.op = "next", !.ret = r.ret]
         /\ ntrue' = IF r.ret THEN ntrue + 1 ELSE ntrue
         /\ rest' = IF r.s.failed THEN rest ELSE DropFirstLine(rest))
  /\ UNCHANGED <<pat, npush, stopped>>

SetDone ==
  /\ ~st.failed
  /\ st' = set_done(call(st))
  /\ last' = [NoCall EXCEPT !.op = "set_done"]
  /\ rest' = <<>>
  /\ stopped' = TRUE
  /\ UNCHANGED <<pat, npush, ntrue>>

PushbackInput ==
  /\ ~st.failed
  /\ npush < MaxPushback
  /\ \E chars \in PushStrings, ow \in BOOLEAN, ok \in BOOLEAN :
     \E u \in OutOfRange(chars), c \in IF ow THEN PreloadChunks(st) ELSE {MaxChunk} :
       Let(IF ow THEN preload_buffer(call(st), c, ok) ELSE call(st), LAMBDA s0 :
       Let(have_current_line(s0), LAMBDA had :
       Let(Remaining(call(st)), LAMBDA before :
         /\ st' = call(pushback_input(call(st), chars, ow, u, c, ok))
         /\ last' = [NoCall EXCEPT !.op = "pushback_input", !.chars = chars,
                                     !.overwrite = ow, !.had = had,
                                     !.before = before,
                                     !.lineno0 = st.lineno,
                                     !.curline = IF had THEN current_line(s0, c, ok).ret
                                                 ELSE <<>>,
                                     !.nextline = IF had THEN LineAfter(s0, c) ELSE <<>>,
                                     !.nextdone = had /\ DoneAfter(s0, c)]
         /\ rest' = IF ow /\ had THEN chars \o DropFirstLine(rest) ELSE chars \o rest)))
  /\ npush' = npush + 1
  /\ UNCHANGED <<pat, ntrue, stopped>>

RoundTrip ==
  /\ ~st.failed
  /\ npush < MaxPushback
  /\ \E overwrite \in BOOLEAN, u \in BOOLEAN, c \in Chunks(st),
        ok1 \in BOOLEAN, ok2 \in BOOLEAN :
       Let(preload_buffer(call(st), c, ok1), LAMBDA s0 :
         /\ ~definitely_done(s0)
         /\ Let(round_trip(call(st), overwrite, u, c, ok1, ok2), LAMBDA r :
            Let(Remaining(s0), LAMBDA before :
              /\ st' = call(r.s)
              /\ last' = [NoCall EXCEPT !.op = "round_trip",
                            !.overwrite = overwrite, !.copy = r.ret.copy,
                            !.endl = r.ret.endl, !.old_line = r.ret.old_line,
                            !.oldcll = r.ret.oldcll, !.lp = r.ret.lp,
                            !.newcll = r.ret.newcll,
                            !.before = before,
                            !.lineno0 = s0.lineno,
                            !.nextline = LineAfter(s0, c),
                            !.nextdone = DoneAfter(s0, c)])))
  /\ npush' = npush + 1
  /\ UNCHANGED <<rest, pat, ntrue, stopped>>

Next ==
  \/ CurrentLine
  \/ CurrentLineLength
  \/ CurrentLineEnding
  \/ Done
  \/ SaveLine
  \/ BufferedAfterCurrent
  \/ Next_
  \/ SetDone
  \/ PushbackInput

Spec == Init /\ [][Next]_vars

\* The calls of the API and the round trip of the gtest.
NextRoundTrip ==
  \/ Next
  \/ RoundTrip

SpecRoundTrip == Init /\ [][NextRoundTrip]_vars

\* set_error(error_condition): what was left to deliver is given up, unless
\* the call changes nothing.
SetError ==
  /\ ~st.failed
  /\ \E error_condition \in BOOLEAN :
       /\ st' = set_error(call(st), error_condition)
       /\ last' = [NoCall EXCEPT !.op = "set_error", !.ret = error_condition,
                                   !.had = error(st)]
       /\ rest' = IF error_condition \/ error(st) THEN <<>> ELSE rest
       /\ stopped' = (stopped \/ error_condition \/ error(st))
  /\ UNCHANGED <<pat, npush, ntrue>>

\* The calls of the API, set_error among them.
NextSetError ==
  \/ Next
  \/ SetError

SpecSetError == Init /\ [][NextSetError]_vars

(***************************************************************************)
(* An xmlInput over a stream: lines of markup and of text.                 *)
(***************************************************************************)
MaxXmlLen == 3

XmlAlphabet == {"<", ">", "/", "?", "a"}

RECURSIVE XmlLines(_)
XmlLines(n) ==
  IF n = 0 THEN {<<>>}
  ELSE LET S == XmlLines(n - 1)
       IN S \cup {Append(x, b) : x \in {y \in S : Len(y) = n - 1}, b \in XmlAlphabet}

\* Tags with a name, with blanks and attributes after it, and text with
\* escapes in it.
XmlScenarios ==
  {<<"<", "a", "/", ">">>, <<"<", "a", "?", ">">>, <<"<", "/", "a", ">">>,
   <<"<", "a", " ", "a", ">">>, <<"<", "a", " ", ">">>, <<"<", "a", " ", "/", ">">>,
   <<"<", "/", "a", " ", ">">>,
   <<"&", "a", "m", "p", ";", "a">>}

LineEndings == {<<LF>>, <<CR, LF>>, <<>>}

\* One line in each of its endings, and a line of markup after it.
XmlInputs ==
  {l \o e \o (IF e = <<>> THEN <<>> ELSE t) :
     l \in XmlLines(MaxXmlLen) \cup XmlScenarios, e \in LineEndings,
     t \in {<<>>, <<"<", "a", "/", ">", LF>>}}

XmlKinds == {"string", "MemoryInput"}

InitXml ==
  /\ \E kind \in XmlKinds, chars \in XmlInputs, ok \in BOOLEAN :
     \E u \in OutOfRange(chars) :
       /\ st = call(reset_line_pointers(construct(kind, chars, u, ok)))
       /\ rest = chars
       /\ pat = chars
  /\ last = NoCall
  /\ npush = 0
  /\ ntrue = 0
  /\ stopped = FALSE

XmlScan ==
  /\ ~st.failed
  /\ \E c \in PreloadChunks(st), ok \in PreloadOks(st) :
       Let(scan(call(st), c, ok), LAMBDA r :
         /\ st' = call(r.s)
         /\ last' = [NoCall EXCEPT !.op = "scan", !.lineno0 = r.ret,
                       !.kind = IF last.kind = -1 THEN r.ret ELSE last.kind])
  /\ UNCHANGED <<rest, pat, npush, ntrue, stopped>>

XmlTextLine ==
  /\ ~st.failed
  /\ definite_kind(st) = TEXT
  /\ \E c \in PreloadChunks(st), ok \in PreloadOks(st) :
       st' = call(text_line(call(st), c, ok).s)
  /\ last' = [NoCall EXCEPT !.op = "text_line", !.kind = last.kind]
  /\ UNCHANGED <<rest, pat, npush, ntrue, stopped>>

XmlNext ==
  /\ ~st.failed
  /\ \E c \in Chunks(st), ok \in BOOLEAN :
       Let(xml_next(call(st), c, ok), LAMBDA r :
         /\ st' = call(r.s)
         /\ last' = [NoCall EXCEPT !.op = "next", !.ret = r.ret]
         /\ ntrue' = IF r.ret THEN ntrue + 1 ELSE ntrue
         /\ rest' = IF r.s.failed THEN rest ELSE DropFirstLine(rest))
  /\ UNCHANGED <<pat, npush, stopped>>

XmlDone ==
  /\ ~st.failed
  /\ \E c \in PreloadChunks(st), ok \in PreloadOks(st) :
       Let(xml_done(call(st), c, ok), LAMBDA r :
         /\ st' = call(r.s)
         /\ last' = [NoCall EXCEPT !.op = "done", !.ret = r.ret, !.kind = last.kind])
  /\ UNCHANGED <<rest, pat, npush, ntrue, stopped>>

NextXml ==
  \/ XmlScan
  \/ XmlTextLine
  \/ XmlNext
  \/ XmlDone

SpecXml == InitXml /\ [][NextXml]_vars

(***************************************************************************)
(* Lines of markup with attributes, as the lines and as what they say.     *)
(***************************************************************************)
MaxAttrs == 2

AttrNames == {<<"a">>, <<"b", "c">>}

AttrValues == {<<>>, <<"x">>, <<"&", "l", "t", ";", "x">>}

Attrs == [name : AttrNames, value : AttrValues]

RECURSIVE AttrLists(_)
AttrLists(n) ==
  IF n = 0 THEN {<<>>}
  ELSE LET S == AttrLists(n - 1)
       IN S \cup {Append(x, a) : x \in {y \in S : Len(y) = n - 1}, a \in Attrs}

\* The line of the gtest and a line whose attributes outgrow the small index.
TaskElem ==
  [tag |-> <<"t", "a", "s", "k">>,
   attrs |-> <<[name |-> <<"l", "e", "v", "e", "l">>,
                value |-> <<"h", "i", "g", "h", " ", "&", "a", "m", "p", ";", " ", "m", "i", "g", "h", "t", "y">>],
               [name |-> <<"n", "a", "m", "e">>,
                value |-> <<"&", "l", "t", ";", "i", "n", "i", "t", "&", "g", "t", ";">>]>>,
   close |-> <<">">>]

ThreeAttrs ==
  [tag |-> <<"a">>,
   attrs |-> <<[name |-> <<"a">>, value |-> <<"x">>],
               [name |-> <<"b">>, value |-> <<"&", "l", "t", ";">>],
               [name |-> <<"a">>, value |-> <<>>]>>,
   close |-> <<"/", ">">>]

Elems ==
  [tag : {<<"a">>}, attrs : AttrLists(MaxAttrs), close : {<<">">>, <<"/", ">">>}]
    \cup {TaskElem, ThreeAttrs}

RECURSIVE RenderAttrs(_)
RenderAttrs(as) ==
  IF as = <<>> THEN <<>>
  ELSE <<" ">> \o as[1].name \o <<"=", "'">> \o as[1].value \o <<"'">>
         \o RenderAttrs(Tail(as))

Render(e) == <<"<">> \o e.tag \o RenderAttrs(e.attrs) \o e.close

ElemLines == {Render(e) : e \in Elems}

ElemOf(line) == CHOOSE e \in Elems : Render(e) = line

\* Lines whose attributes are not name='value' pairs of sane names.
OddLines ==
  {<<"<", "a", " ", "1", "=", "'", "x", "'", ">">>,
   <<"<", "a", " ", "b", "/", "c", "=", "'", "x", "'", ">">>,
   <<"<", "a", " ", "&", "b", "=", "'", "x", "'", ">">>,
   <<"<", "a", " ", "b", "'", "c", "=", "'", "x", "'", ">">>,
   <<"<", "a", " ", "b", "=", "'", "x", "'", " ", "?", "c", "=", "'", "y", "'", ">">>,
   <<"<", "a", " ", "b", ">">>,
   <<"<", "a", " ", "b", "=", "'", "x", ">">>,
   <<"<", "a", " ", "b", "=", "x", " ", "c", "=", "'", "y", "'", ">">>,
   <<"<", "a", " ", "b", "=", "x", ">">>,
   <<"<", "a", " ", "_", "b", "=", "'", "x", "'", ">">>,
   <<"<", "a", " ", " ", "b", "=", "'", "x", "'", " ", " ", ">">>,
   <<"<", "a", " ", "b", " ", "c", "=", "'", "x", "'", ">">>,
   <<"<", "a", " ", "b", "=", "'", "x", "'", "c", "=", "'", "y", "'", "/", ">">>}

AttrInputs ==
  {l \o e : l \in ElemLines \cup OddLines, e \in LineEndings}
    \cup {l \o <<LF>> \o m \o <<LF>> : l \in {Render(TaskElem), Render(ThreeAttrs)},
                                     m \in {Render(ThreeAttrs), <<"x">>}}

InitAttr ==
  /\ \E kind \in XmlKinds, chars \in AttrInputs, ok \in BOOLEAN :
     \E u \in OutOfRange(chars) :
       /\ st = call(reset_line_pointers(construct(kind, chars, u, ok)))
       /\ rest = chars
       /\ pat = chars
  /\ last = NoCall
  /\ npush = 0
  /\ ntrue = 0
  /\ stopped = FALSE

\* attr_count(), also as attr_name, attr_value and attr_index call it.
AttrCount ==
  /\ ~st.failed
  /\ \E c \in PreloadChunks(st), ok \in BOOLEAN :
       Let(attr_count(call(st), c, ok), LAMBDA r :
         /\ st' = call(r.s)
         /\ last' = [NoCall EXCEPT !.op = "attr_count", !.lineno0 = r.ret,
                                     !.kind = last.kind])
  /\ UNCHANGED <<rest, pat, npush, ntrue, stopped>>

NextAttr ==
  \/ XmlScan
  \/ XmlNext
  \/ XmlDone
  \/ AttrCount

SpecAttr == InitAttr /\ [][NextAttr]_vars

(***************************************************************************)
(* The loop  while (!in.done()) in.next();  step by step: each turn of the *)
(* while loop of fill_buffer is a step, and so is the part of next() that  *)
(* skips the current line.  done() and next() fill while need_to_read(),   *)
(* the C heap delivers, and the source gives at least one byte at a time   *)
(* until it is exhausted and 0 bytes from then on.  Here ntrue counts the  *)
(* calls of next().                                                        *)
(***************************************************************************)
MaxNextCalls == 4

\* The turns that one fill_buffer is followed for.
MaxFillTurns == 32

InitLoop ==
  /\ \E kind \in Kinds, chars \in Inputs :
       /\ st = call(construct(kind, chars, FALSE, TRUE))
       /\ rest = chars
       /\ pat = chars
  /\ last = NoCall
  /\ npush = 0
  /\ ntrue = 0
  /\ stopped = FALSE

\* fill_buffer is in its while loop, or done() or next() is about to call it.
Filling(s) == ~s.failed /\ ~definitely_done(s) /\ need_to_read(s)

\* The record of a turn of fill_buffer: oldcll is the number of the turn.
FillTurnOf(l) ==
  [NoCall EXCEPT !.op = "fill_buffer",
                 !.oldcll = IF l.op = "fill_buffer" THEN l.oldcll + 1 ELSE 1]

\* One turn of  while (need_to_read())  in fill_buffer.
FillTurn ==
  /\ Filling(st)
  /\ FillTurnOf(last).oldcll <= MaxFillTurns
  /\ last' = FillTurnOf(last)
  /\ \E c \in Chunks(st) : st' = call(fill_step(call(st), c, TRUE).s)
  /\ UNCHANGED <<rest, pat, npush, ntrue, stopped>>

\* next() on a line that is current, up to its call of fill_buffer.
SkipLine ==
  /\ ~st.failed /\ have_current_line(st)
  /\ ntrue < MaxNextCalls
  /\ ntrue' = ntrue + 1
  /\ st' = set_buffer_content(
             [st EXCEPT !.position = @ + ((st.end + 1) - st.beg)],
             st.end + 1, st.content_end)
  /\ last' = [NoCall EXCEPT !.op = "next"]
  /\ rest' = DropFirstLine(rest)
  /\ UNCHANGED <<pat, npush, stopped>>

NextLoop ==
  \/ FillTurn
  \/ SkipLine

\* What FillTurn and SkipLine do to last and to ntrue: a step of NextLoop
\* changes last by FillTurnDue exactly if it is a FillTurn and ntrue by
\* SkipLineDue exactly if it is a SkipLine, and each is enabled when that
\* action is.
FillTurnDue ==
  /\ Filling(st)
  /\ FillTurnOf(last).oldcll <= MaxFillTurns
  /\ last' = FillTurnOf(last)

SkipLineDue ==
  /\ ~st.failed /\ have_current_line(st)
  /\ ntrue < MaxNextCalls
  /\ ntrue' = ntrue + 1

\* The loop is sequential code that keeps running: the one step that is
\* enabled is taken.
SpecLoop ==
  InitLoop /\ [][NextLoop]_vars /\ WF_last(FillTurnDue) /\ WF_ntrue(SkipLineDue)

(***************************************************************************)
(* An xmlInput whose user also pushes lines back on input(), the stream    *)
(* under it: pushback_input leaves the fields of the xmlInput alone.       *)
(***************************************************************************)
XmlPushInputs ==
  {l \o <<LF>> \o n \o e :
     l \in {<<"<", "a", " ", "a", "=", "'", "x", "'", "/", ">">>,
            <<"<", "a", ">">>, <<"t">>},
     n \in {<<"<", "/", "a", ">">>, <<"t">>},
     e \in {<<LF>>, <<>>}}

XmlPushStrings == {<<"<", "b", ">", LF>>, <<"t", LF>>}

InitXmlPush ==
  /\ \E kind \in XmlKinds, chars \in XmlPushInputs :
       /\ st = call(reset_line_pointers(construct(kind, chars, FALSE, TRUE)))
       /\ rest = chars
       /\ pat = chars
  /\ last = NoCall
  /\ npush = 0
  /\ ntrue = 0
  /\ stopped = FALSE

\* input().pushback_input(chars, length, overwrite_current_line)
XmlPushback ==
  /\ ~st.failed
  /\ npush < MaxPushback
  /\ \E chars \in XmlPushStrings, ow \in BOOLEAN, ok \in BOOLEAN :
     \E c \in IF ow THEN PreloadChunks(st) ELSE {MaxChunk} :
       Let(IF ow THEN preload_buffer(call(st), c, ok) ELSE call(st), LAMBDA s0 :
         /\ st' = call(pushback_input(call(st), chars, ow, FALSE, c, ok))
         /\ last' = [NoCall EXCEPT !.op = "pushback_input", !.chars = chars,
                                     !.overwrite = ow,
                                     !.had = have_current_line(s0),
                                     !.lineno0 = st.lineno,
                                     !.kind = definite_kind(st)]
         /\ rest' = IF ow /\ have_current_line(s0)
                      THEN chars \o DropFirstLine(rest) ELSE chars \o rest)
  /\ npush' = npush + 1
  /\ UNCHANGED <<pat, ntrue, stopped>>

NextXmlPush ==
  \/ XmlScan
  \/ AttrCount
  \/ XmlNext
  \/ XmlPushback

SpecXmlPush == InitXmlPush /\ [][NextXmlPush]_vars

\* test_istream.cpp, the total pattern.
TotalPattern ==
  <<"*", "?", " ", "n", "a", "m", "e", "?", "=", "'", "%", "n", "%", "p",
    "'">>

\* test_istream.cpp, the pattern that is not total.
PartialPattern ==
  <<"*", " ", "n", "a", "m", "e", "=", "'", "%", "n", "%", "p", "'">>

\* test_istream.cpp: one required and three optional sequential attributes.
SequentialPattern ==
  <<"*", " ", "%", "p", "=", "'", "*", "'", " ", "*", "?", "=", "'", "'",
    " ", "?", "=", "'", "'", " ", "?", "=", "'", "%", "n", "'">>

\* xmlinput.hpp: the value pattern %p,%p,%p.
CommaPattern ==
  <<"a", " ", "n", "a", "m", "e", "=", "'", "%", "p", ",", "%", "p", ",",
    "%", "p", "'">>

CountedCommaPattern ==
  <<"a", " ", "n", "a", "m", "e", "=", "'", "%", "p", "%", "n", ",", "%",
    "p", "%", "n", ",", "%", "p", "'">>

CutCommaPattern ==
  <<"a", " ", "n", "a", "m", "e", "=", "'", "%", "0", "p", ",", "%", "0",
    "p", ",", "%", "p", "'">>

NumberPattern ==
  <<"a", " ", "b", "=", "'", "%", "d", "'">>

TagPattern ==
  <<"a">>

AnyAttrPattern ==
  <<"*", " ", "*", "=", "'", "*", "'">>

\* Formats the scanner takes for well formed.
WellFormedPatterns ==
  {TotalPattern, PartialPattern, SequentialPattern, CommaPattern, CountedCommaPattern,
   CutCommaPattern, NumberPattern, TagPattern, AnyAttrPattern}

\* Malformed formats, one of each kind.
MalformedPatterns ==
  {<<"?">>,
   <<"a", "=", "b">>,
   <<"a", "/">>,
   <<"a", " ", "b", "/", "c", "=", "'", "*", "'">>,
   <<"a", " ", "b", "?", "c", "=", "'", "*", "'">>,
   <<"a", " ", "b", "&", "c", "=", "'", "*", "'">>,
   <<"a", " ", "=", "'", "*", "'">>,
   <<"a", " ", "b">>,
   <<"a", " ", "b", "=", "'", "*">>,
   <<"a", " ", "b", "=", "'", "%", "q", "'">>,
   <<"a", " ", "b", "=", "'", "*", "x", "'">>,
   <<"a", " ", "*", "x", "=", "'", "*", "'">>,
   <<"a", " ", "%", "p", "=", "'", "*", "'", " ", "b", "=", "'", "*", "'">>,
   <<"a", " ", "b", "=", "'", "*", "'", " ", "%", "p", "=", "'", "*", "'">>}

\* Lines to scan: text, tails, elements of zero to five attributes.
ScanLines ==
  {<<"<", "a", " ", "n", "a", "m", "e", "=", "'", "a", ",", "b", ",", "c", ",", "d", "'", "/", ">">>,
   <<"<", "a", " ", "b", "=", "'", "x", "'", " ", "n", "a", "m", "e", "=", "'", "y", "'", ">">>,
   <<"<", "a", " ", "b", "=", "'", "1", "2", "'", ">">>,
   <<"<", "a", ">">>,
   <<"<", "/", "a", ">">>,
   <<"x">>,
   <<>>,
   <<"<", "a", " ", "b", "=", "'", "x", "'", " ", "c", "=", "'", "y", "'", " ", "d", "=", "'", "z", "'", " ", "e", "=", "'", "w", "'", ">">>,
   <<"<", "a", " ", "b", "=", "'", "x", "'", " ", "c", "=", "'", "y", "'", " ", "d", "=", "'", "z", "'", " ", "e", "=", "'", "w", "'", " ", "f", "=", "'", "v", "'", "/", ">">>,
   <<"<", "a", "=", "b", ">">>,
   <<"<", "a", " ", "b", "=", "'", "x", "'", " ", "c", "=", "'", "y", "'", "/", ">">>,
   Render(TaskElem)}

ScanPatterns == WellFormedPatterns \cup MalformedPatterns

ScanInputs ==
  {l \o <<LF>> : l \in ScanLines}
    \cup {l \o <<CR, LF>> \o <<"<", "a", ">">> : l \in {<<"x">>, Render(TaskElem)}}

\* The values next_attr has at a call.
MaxSkip == 1

\* What the uninitialized _which can hold when the build does not define
\* ASSERT: the values the scanner tells apart, and one it does not know.
UninitWhich == {NUL, "T", "F", GARBAGE}

InitScanElem ==
  /\ \E kind \in {"MemoryInput"}, chars \in ScanInputs, ok \in BOOLEAN :
     \E u \in OutOfRange(chars) :
       /\ st = call(reset_line_pointers(construct(kind, chars, u, ok)))
       /\ rest = chars
       /\ pat = chars
  /\ last = NoCall
  /\ npush = 0
  /\ ntrue = 0
  /\ stopped = FALSE

\* scan_elem(next_attr, format, ...) of either build.  The caller makes
\* another call on the stream before it scans the line again.
ScanElem ==
  /\ ~st.failed
  /\ last.op # "scan_elem"
  /\ \E format \in ScanPatterns, next_attr \in 0..MaxSkip, debug \in BOOLEAN :
     \E which0 \in IF debug THEN {NUL} ELSE UninitWhich :
     \E c \in PreloadChunks(st), ok \in BOOLEAN :
       Let(scan_elem(call(st), next_attr, format, debug, which0, c, ok), LAMBDA r :
         /\ st' = call(r.s)
         /\ last' = [NoCall EXCEPT !.op = "scan_elem", !.ret = r.ret,
                       !.chars = format, !.out = r.out, !.debug = debug,
                       !.which0 = which0,
                       !.next_attr0 = next_attr, !.next_attr = r.next_attr,
                       !.kind = IF last.kind = -1 THEN definite_kind(r.s)
                                ELSE last.kind])
  /\ UNCHANGED <<rest, pat, npush, ntrue, stopped>>

NextScanElem ==
  \/ ScanElem
  \/ XmlScan
  \/ AttrCount
  \/ XmlNext
  \/ XmlDone

SpecScanElem == InitScanElem /\ [][NextScanElem]_vars

(***************************************************************************)
(* What a caller expects of the byte stream `rest`.                        *)
(***************************************************************************)
StripCR(seg) ==
  IF Len(seg) > 0 /\ seg[Len(seg)] = CR THEN SubSeq(seg, 1, Len(seg) - 1) ELSE seg

\* The first line of r: its first segment, less a CR that stands before the LF.
ExpLine(r) == IF HasLF(r) THEN StripCR(FirstSeg(r)) ELSE r

ExpEnd(r) ==
  IF ~HasLF(r) THEN <<>>
  ELSE IF StripCR(FirstSeg(r)) # FirstSeg(r) THEN <<CR, LF>> ELSE <<LF>>

EndsInLF(r) == Len(r) > 0 /\ r[Len(r)] = LF

\* No pushback, no set_done, no failed assertion so far.
PlainRead == npush = 0 /\ ~stopped /\ ~st.failed

(***************************************************************************)
(* C1.  Without pushback, in any chunking, the current line is the next    *)
(* segment of the input split at LF with one CR before the LF removed, its *)
(* ending is LF or CR LF accordingly, and a non-empty final segment with   *)
(* no LF is returned whole as one last line with an empty ending.          *)
(***************************************************************************)
C1_LineSplitting ==
  PlainRead =>
    \A c \in Chunks(st), ok \in BOOLEAN :
      LET r == current_line(call(st), c, ok)
          e == current_line_ending(call(st), c, ok)
      IN /\ ~definitely_done(r.s) =>
              /\ rest # <<>>
              /\ r.ret = ExpLine(rest)
              /\ e.ret = ExpEnd(rest)
         /\ (definitely_done(r.s) /\ ~error(r.s)) => rest = <<>>

(***************************************************************************)
(* C2.  As claimed: for an input that ends in LF, read to the end, the     *)
(* number of next() calls that returned true is the number of LF bytes.    *)
(***************************************************************************)
C2_NextTrueCount ==
  (PlainRead /\ definitely_done(st) /\ ~error(st) /\ EndsInLF(pat))
    => ntrue = NumLF(pat)

(***************************************************************************)
(* C2, amended.  For an input that ends in LF, read to the end, the number *)
(* of next() calls that returned true is one less than the number of LF    *)
(* bytes: the next() that discards the last line returns false.            *)
(***************************************************************************)
C2_NextTrueCountLessOne ==
  (PlainRead /\ definitely_done(st) /\ ~error(st) /\ EndsInLF(pat))
    => ntrue = NumLF(pat) - 1

C2_Witness ==
  /\ PlainRead /\ definitely_done(st) /\ ~error(st) /\ EndsInLF(pat)
  /\ last.op = "next" /\ ~last.ret
  /\ NumLF(pat) = 2 /\ ntrue = 1

(***************************************************************************)
(* C3.  In every reachable state current_line_ending() is "", LF or CR LF, *)
(* and it is "" only when the current line is the final partial line of    *)
(* what is left to deliver, or the stream is done.                         *)
(***************************************************************************)
C3_LineEnding ==
  ~st.failed =>
    \A c \in Chunks(st), ok \in BOOLEAN :
      LET e == current_line_ending(call(st), c, ok)
      IN /\ e.ret \in {<<>>, <<LF>>, <<CR, LF>>}
         /\ e.ret = <<>> =>
              \/ definitely_done(e.s)
              \/ /\ AfterCurrent(e.s) = <<>>
                 /\ Unread(e.s) = <<>>
                 /\ npush = 0 => ~HasLF(rest)

C3_Witness ==
  /\ ~st.failed /\ have_current_line(st) /\ st.line_ending = 0
  /\ last.op = "next" /\ last.ret /\ rest # <<>> /\ ~HasLF(rest)

(***************************************************************************)
(* C4.  Round trip: with copy = save_line() and endl =                     *)
(* current_line_ending(), after next(); pushback_input(endl);              *)
(* pushback_input(copy), or after pushback_input(endl, overwrite);         *)
(* pushback_input(copy), current_line() is the line it was and             *)
(* current_line_length() is what it was, whatever the line (first, empty,  *)
(* final partial), and the lines that follow are those that followed.      *)
(***************************************************************************)
C4_RoundTrip ==
  last.op = "round_trip" =>
    /\ ~st.failed
    /\ ~error(st) =>
         /\ last.lp = last.old_line
         /\ last.newcll = last.oldcll
         /\ Remaining(st) = last.before
         /\ \A c \in Chunks(st) :
              /\ DoneAfter(call(st), c) = last.nextdone
              /\ LineAfter(call(st), c) = last.nextline

(***************************************************************************)
(* C5.  As claimed: after pushback_input(bytes, overwrite) of one line     *)
(* over a current line, the current line is the bytes without their        *)
(* trailing LF.                                                            *)
(***************************************************************************)
C5_OverwriteKeepsBytes ==
  (last.op = "pushback_input" /\ last.overwrite /\ last.had
     /\ EndsInLF(last.chars) /\ ~st.failed) =>
    \A c \in Chunks(st), ok \in BOOLEAN :
      LET r == current_line(call(st), c, ok)
      IN ~error(r.s) => r.ret = SubSeq(last.chars, 1, Len(last.chars) - 1)

(***************************************************************************)
(* C5, amended.  After pushback_input(bytes, overwrite) of one line over a *)
(* current line, the current line is the bytes without their trailing LF   *)
(* and without a CR right before that LF; the old current line is gone     *)
(* from what the stream has yet to deliver, and the line after the new one *)
(* is the line that followed the old one.                                  *)
(***************************************************************************)
C5_Overwrite ==
  (last.op = "pushback_input" /\ last.overwrite /\ last.had
     /\ EndsInLF(last.chars) /\ ~st.failed) =>
    \A c \in Chunks(st), ok \in BOOLEAN :
      LET r == current_line(call(st), c, ok)
          n == next(call(st), c, ok)
      IN /\ ~error(r.s) =>
              /\ r.ret = StripCR(FirstSeg(last.chars))
              /\ Remaining(st) = last.chars \o DropFirstLine(last.before)
         /\ ~error(n.s) =>
              /\ ~n.s.failed
              /\ definitely_done(n.s) = last.nextdone
              /\ current_line(n.s, c, TRUE).ret = last.nextline

C5_Witness ==
  /\ last.op = "pushback_input" /\ last.overwrite /\ last.had /\ ~st.failed
  /\ last.chars = <<CR, LF>> /\ ~last.nextdone /\ last.nextline # <<>>
  /\ have_current_line(st) /\ ~error(st)

(***************************************************************************)
(* C6.  Pushback before the current line: after pushback_input of a line   *)
(* (zero LF) while a line (one) is current with lineno n, the current line *)
(* is the pushed line with lineno n; next() then gives the old current     *)
(* line with lineno n+1; and for any pushed bytes, what the stream has yet *)
(* to deliver is the pushed bytes followed by what it had to deliver       *)
(* before, the current line included: nothing lost, nothing duplicated.    *)
(***************************************************************************)
C6_PushbackBefore ==
  (last.op = "pushback_input" /\ ~last.overwrite /\ last.had) =>
    /\ ~st.failed
    /\ ~error(st) => Remaining(st) = last.chars \o last.before
    /\ EndsInLF(last.chars) =>
         \A c \in Chunks(st), ok \in BOOLEAN :
           LET r == current_line(call(st), c, ok)
               n == next(call(st), c, ok)
           IN /\ ~error(r.s) =>
                   /\ r.ret = StripCR(FirstSeg(last.chars))
                   /\ r.s.lineno = last.lineno0
              /\ ~error(n.s) =>
                   /\ ~n.s.failed
                   /\ n.ret
                   /\ current_line(n.s, c, TRUE).ret = last.curline
                   /\ n.s.lineno = last.lineno0 + 1

(***************************************************************************)
(* C7.  No scribbling on the source: whatever the calls made, the bytes of *)
(* the caller's source slice are those it was given; the NULs that end a   *)
(* line are written into the stream's own buffer only.                     *)
(***************************************************************************)
C7_NoScribble == st.base = pat

C7_Witness ==
  /\ st.base = pat /\ ~st.failed /\ st.kind = "MemoryInput"
  /\ last.op = "next" /\ last.ret
  /\ have_current_line(st) /\ st.line_ending = 2
  /\ st.buffer[st.end] = NUL /\ st.buffer[st.end - 1] = NUL
  /\ pat[st.offset] = LF

(***************************************************************************)
(* C8.  Done is absorbing under reads: once the stream is done, by end of  *)
(* input or by set_done(), current_line(), current_line_length(),          *)
(* current_line_ending(), done(), next() and set_done() leave it done,     *)
(* current_line() is the empty string, current_line_length() is 0,         *)
(* current_line_ending() is empty and next() returns false.                *)
(***************************************************************************)
C8_DoneAbsorbing ==
  (definitely_done(st) /\ ~error(st) /\ ~st.failed) =>
    /\ definitely_done(set_done(call(st))) /\ ~error(set_done(call(st)))
    /\ \A c \in Chunks(st), ok \in BOOLEAN :
         LET l == current_line(call(st), c, ok)
             n == current_line_length(call(st), c, ok)
             e == current_line_ending(call(st), c, ok)
             d == done(call(st), c, ok)
             x == next(call(st), c, ok)
         IN /\ l.ret = <<>> /\ n.ret = 0 /\ e.ret = <<>> /\ d.ret /\ ~x.ret
            /\ \A s \in {l.s, n.s, e.s, d.s, x.s} :
                 definitely_done(s) /\ ~error(s) /\ ~s.failed

C8_Witness ==
  /\ definitely_done(st) /\ ~error(st) /\ ~st.failed
  /\ stopped /\ Unread(st) # <<>>
  /\ last.op = "next" /\ ~last.ret

(***************************************************************************)
(* C9.  next() returns false if and only if the stream is done after the   *)
(* call: what next() returns is the opposite of what done() returns right  *)
(* after it, in every state, unstarted, final partial line, done and error *)
(* included.                                                               *)
(***************************************************************************)
C9_NextIsNotDone ==
  ~st.failed =>
    \A c \in Chunks(st), ok \in BOOLEAN :
      LET x == next(call(st), c, ok)
      IN ~x.s.failed =>
           \A c2 \in Chunks(st), ok2 \in BOOLEAN :
             x.ret = ~done(call(x.s), c2, ok2).ret

C9_Witness ==
  /\ last.op = "next" /\ ~last.ret /\ error(st) /\ ~st.failed
  /\ npush = 0 /\ ~stopped

(***************************************************************************)
(* C10.  No reads after done: after set_done(), whatever the state it was  *)
(* called in, and after the stream became done by end of input, no         *)
(* current_line, next, done or current_line_ending call makes a            *)
(* read_input on the source.                                               *)
(***************************************************************************)
C10_NoReadsAfterDone ==
  ((last.op = "set_done" \/ definitely_done(st)) /\ ~st.failed) =>
    \A c \in Chunks(st), ok \in BOOLEAN :
      /\ ~current_line(call(st), c, ok).s.did_read
      /\ ~next(call(st), c, ok).s.did_read
      /\ ~done(call(st), c, ok).s.did_read
      /\ ~current_line_ending(call(st), c, ok).s.did_read

C10_Witness ==
  /\ last.op = "set_done" /\ ~st.failed /\ definitely_done(st)
  /\ st.kind = "FileInput" /\ Unread(st) # <<>>
  /\ st.content_end = st.buffer_size /\ st.buffer_size = SMALL_SIZE

(***************************************************************************)
(* C11.  Without pushback, lineno() is 0 before any line has been loaded,  *)
(* it is k while the k-th line of the input is the current line, the final *)
(* partial line included, and it does not change when the stream becomes   *)
(* done, by end of input or by set_done().                                 *)
(***************************************************************************)
\* The number of lines of the input r, a final partial line included.
NumLines(r) == NumLF(r) + (IF r # <<>> /\ ~EndsInLF(r) THEN 1 ELSE 0)

lineno(s) == s.lineno

C11_Lineno ==
  PlainRead =>
    /\ (last.op = "init" /\ ~have_current_line(st) /\ ~definitely_done(st))
         => lineno(st) = 0
    /\ have_current_line(st) => lineno(st) = (NumLF(pat) - NumLF(rest)) + 1
    /\ (definitely_done(st) /\ ~error(st)) => lineno(st) = NumLines(pat)
    /\ lineno(set_done(call(st))) = lineno(st)

C11_Witness ==
  /\ PlainRead /\ have_current_line(st) /\ st.line_ending = 0
  /\ last.op = "next" /\ last.ret
  /\ lineno(st) = 3 /\ NumLF(pat) = 2

(***************************************************************************)
(* C12.  current_line_length() is the number of bytes of the current line  *)
(* without its terminator, LF or CR LF; for input without NUL bytes it is  *)
(* strlen(current_line()), whichever terminator the line had.              *)
(***************************************************************************)
NoNUL(r) == \A i \in 1..Len(r) : r[i] # NUL

C12_LineLength ==
  (PlainRead /\ NoNUL(pat)) =>
    \A c \in Chunks(st), ok \in BOOLEAN :
      LET n == current_line_length(call(st), c, ok)
          l == current_line(call(st), c, ok)
      IN have_current_line(n.s) =>
           /\ n.ret = Len(ExpLine(rest))
           /\ n.ret = Len(l.ret)

(***************************************************************************)
(* C13.  A CR that no LF follows is ordinary data: it does not end a line  *)
(* and it is delivered as a byte of its line, at its place, also when it   *)
(* is the last byte of a final partial line at the end of the input.       *)
(***************************************************************************)
\* The bytes of the first line of r, a CR that an LF follows left out.
LineData(r) == IF HasLF(r) THEN StripCR(FirstSeg(r)) ELSE r

C13_LoneCRIsData ==
  PlainRead =>
    \A c \in Chunks(st), ok \in BOOLEAN :
      LET l == current_line(call(st), c, ok)
          e == current_line_ending(call(st), c, ok)
      IN have_current_line(l.s) =>
           /\ \A i \in 1..Len(LineData(rest)) :
                LineData(rest)[i] = CR => (i <= Len(l.ret) /\ l.ret[i] = CR)
           /\ e.ret = <<CR, LF>> =>
                (HasLF(rest) /\ StripCR(FirstSeg(rest)) # FirstSeg(rest))

(***************************************************************************)
(* C14.  NUL bytes in a line are kept: for a current line that holds NUL   *)
(* bytes, current_line(len) gives the number of bytes of the line and the  *)
(* bytes themselves, and save_line() returns a copy of just these len      *)
(* bytes and one NUL after them.                                           *)
(***************************************************************************)
C14_EmbeddedNUL ==
  PlainRead =>
    \A c \in Chunks(st), ok \in BOOLEAN :
      LET l == current_line_sized(call(st), c, ok)
          v == save_line(call(st), c, ok)
      IN (have_current_line(l.s) /\ ~NoNUL(LineData(rest))) =>
           /\ l.line_length = Len(LineData(rest))
           /\ l.ret = LineData(rest)
           /\ v.ret = l.ret \o <<NUL>>

(***************************************************************************)
(* C15.  The buffer grows by itself: an input that is one line with no LF, *)
(* longer than the small buffer or than BIG_SIZE, delivered in any         *)
(* chunking, the heap delivering, is read without error as one line of the *)
(* length and the bytes of the input, with an empty line ending, and no    *)
(* line after it.                                                          *)
(***************************************************************************)
C15_SelfGrowing ==
  (PlainRead /\ last.op = "init" /\ ~error(st)
     /\ Len(pat) > SMALL_SIZE /\ ~HasLF(pat)) =>
    \A c \in Chunks(st) :
      LET l == current_line_sized(call(st), c, TRUE)
          e == current_line_ending(call(st), c, TRUE)
          n == next(call(l.s), c, TRUE)
      IN /\ ~l.s.failed /\ ~error(l.s) /\ have_current_line(l.s)
         /\ l.line_length = Len(pat)
         /\ l.ret = pat
         /\ current_line(call(st), c, TRUE).ret = pat
         /\ e.ret = <<>>
         /\ ~n.ret /\ definitely_done(n.s) /\ ~error(n.s) /\ ~n.s.failed

C15_Witness ==
  /\ PlainRead /\ last.op = "init" /\ pat = LongLine /\ st.kind = "FileInput"
  /\ have_current_line(st) /\ st.line_ending = 0
  /\ st.buffer_size > BIG_SIZE /\ st.must_free
  /\ st.end - st.beg = Len(LongLine)

(***************************************************************************)
(* C16.  As claimed: once error() is true it stays true after any of       *)
(* current_line, next, done, set_done, set_error(false), pushback_input.   *)
(***************************************************************************)
\* error() is true after each of the reading calls and set_done in state s.
ErrorKeptByReads(s) ==
  /\ error(set_done(call(s)))
  /\ \A c \in Chunks(s), ok \in BOOLEAN :
       /\ error(current_line(call(s), c, ok).s)
       /\ error(current_line_length(call(s), c, ok).s)
       /\ error(current_line_ending(call(s), c, ok).s)
       /\ error(save_line(call(s), c, ok).s)
       /\ error(done(call(s), c, ok).s) /\ done(call(s), c, ok).ret
       /\ error(next(call(s), c, ok).s) /\ ~next(call(s), c, ok).ret

AllocationFailed(a, b) == a # b

InErrorForGood(s) ==
  /\ ~s.failed /\ error(s)
  /\ ErrorKeptByReads(s)
  /\ \A c \in Chunks(s), ok \in BOOLEAN : current_line(call(s), c, ok).ret = <<>>

C17_AllocationFailure ==
  /\ (~st.failed /\ ~error(st)) =>
       \A c \in Chunks(st) :
         /\ AllocationFailed(next(call(st), c, FALSE), next(call(st), c, TRUE))
              => (InErrorForGood(next(call(st), c, FALSE).s)
                  /\ ~next(call(st), c, FALSE).ret)
         /\ AllocationFailed(done(call(st), c, FALSE), done(call(st), c, TRUE))
              => (InErrorForGood(done(call(st), c, FALSE).s)
                  /\ done(call(st), c, FALSE).ret)
         /\ \A chars \in PushStrings, ow \in BOOLEAN :
              AllocationFailed(pushback_input(call(st), chars, ow, FALSE, c, FALSE),
                               pushback_input(call(st), chars, ow, FALSE, c, TRUE))
                => InErrorForGood(pushback_input(call(st), chars, ow, FALSE, c, FALSE))
  /\ (~st.failed /\ error(st)) => InErrorForGood(st)

(***************************************************************************)
(* C18.  Without pushback, position() is 0 at the start, and whenever a    *)
(* line is current it is the number of bytes of the input that come before *)
(* the first byte of that line: the bytes of the earlier lines and of      *)
(* their terminators, 1 for LF and 2 for CR LF.                            *)
(***************************************************************************)
position(s) == s.position

C18_Position ==
  PlainRead =>
    /\ last.op = "init" => position(st) = 0
    /\ have_current_line(st) => position(st) = Len(pat) - Len(rest)

C18_Witness ==
  /\ PlainRead /\ have_current_line(st) /\ last.op = "next" /\ last.ret
  /\ pat = <<"a", LF, "a", "a", CR, LF, "a">>
  /\ position(st) = 6 /\ rest = <<"a">>

(***************************************************************************)
(* C19.  buffered_after_current() returns the bytes already read from the  *)
(* source that follow the terminator of the current line: in every state   *)
(* with a current line, be it ended by LF, by CR LF or the final partial   *)
(* line, these bytes and then the bytes not yet read from the source are   *)
(* what the stream has to deliver after the current line and its ending;   *)
(* the size is 0 when the stream is done.                                  *)
(***************************************************************************)
C19_BufferedAfterCurrent ==
  ~st.failed =>
    \A c \in Chunks(st), ok \in BOOLEAN :
      LET b == buffered_after_current(call(st), c, ok)
      IN /\ ~b.s.failed
         /\ b.buffered_size = Len(b.ret)
         /\ definitely_done(b.s) => b.buffered_size = 0
         /\ have_current_line(b.s) =>
              b.ret \o Unread(b.s) = DropFirstLine(Remaining(b.s))


\* The kind of a line as its first and last bytes tell it.
IsMarkupLine(line) ==
  Len(line) >= 2 /\ line[1] = "<" /\ line[Len(line)] = ">"

KindOfLine(line) ==
  IF ~IsMarkupLine(line) THEN TEXT
  ELSE IF line[2] = "/" THEN TAIL
  ELSE IF line[Len(line) - 1] \in {"/", "?"} THEN ELEM
  ELSE HEAD

(***************************************************************************)
(* C20.  As claimed: a line is markup exactly when it has length at least  *)
(* 2, starts with '<' and ends with '>'; a markup line with a leading '</' *)
(* is TAIL, otherwise one with a trailing '/>' or '?>' is ELEM, otherwise  *)
(* it is HEAD; every other line is TEXT, and a line that starts with '<'   *)
(* but does not end with '>' is returned by text_line() unchanged.         *)
(***************************************************************************)
C20_LineClassification ==
  (~st.failed /\ rest # <<>>) =>
    \A c \in PreloadChunks(st), ok \in PreloadOks(st) :
      Let(scan(call(st), c, ok), LAMBDA r :
        (~r.s.failed /\ ~definitely_done(r.s)) =>
          /\ r.ret = KindOfLine(LineData(rest))
          /\ (r.ret # TEXT) = IsMarkupLine(LineData(rest))
          /\ (LineData(rest) # <<>> /\ LineData(rest)[1] = "<"
                /\ ~IsMarkupLine(LineData(rest)))
               => text_line(r.s, c, ok).ret = LineData(rest))


(***************************************************************************)
(* C29.  In every state with a current line (end < content_end) the byte   *)
(* at buffer[end] is NUL, and if line_ending is 2 the byte at              *)
(* buffer[end-1] is NUL too.                                               *)
(***************************************************************************)
C29_NullTerminated ==
  (~st.failed /\ have_current_line(st)) =>
    /\ st.buffer[st.end] = NUL
    /\ st.line_ending = 2 => st.buffer[st.end - 1] = NUL

\* A CR LF line is current after a pushback on a buffer that had grown.
C29_Witness ==
  /\ ~st.failed /\ have_current_line(st) /\ st.line_ending = 2
  /\ last.op = "pushback_input" /\ st.buffer_size > SMALL_SIZE
  /\ st.buffer[st.end] = NUL /\ st.buffer[st.end - 1] = NUL


\* The buffer states that the indices can be in; an unstarted stream, its
\* capacity 0, is in the third.
HaveLineState(s) == s.beg <= s.end /\ s.end < s.content_end /\ s.content_end <= s.buffer_size

NeedReadState(s) == s.beg <= s.end /\ s.end = s.content_end /\ s.content_end <= s.buffer_size

DoneState(s) == s.beg = s.end /\ s.end = s.buffer_size + 1

ErrorState(s) == s.beg = s.end /\ s.end >= s.buffer_size + 2

(***************************************************************************)
(* C30.  As claimed: after any sequence of operations the indices are in   *)
(* exactly one of the states have-line, need-read (unstarted included),    *)
(* done with beg = end = capacity + 1 and error with beg = end >=          *)
(* capacity + 2; so end - beg is 0 in the done and error states.           *)
(***************************************************************************)
C30_StateClassification ==
  ~st.failed =>
    /\ Cardinality({k \in {"have-line", "need-read", "done", "error"} :
                      \/ k = "have-line" /\ HaveLineState(st)
                      \/ k = "need-read" /\ NeedReadState(st)
                      \/ k = "done" /\ DoneState(st)
                      \/ k = "error" /\ ErrorState(st)}) = 1
    /\ definitely_done(st) => st.end - st.beg = 0


(***************************************************************************)
(* C23.  As claimed: while the same line stays current (no next() since),  *)
(* every scan() returns the kind that the first scan() of that line        *)
(* returned.                                                               *)
(***************************************************************************)
C23_ScanStable ==
  (~st.failed /\ last.op = "scan") => last.lineno0 = last.kind


\* What the attribute calls report of the line that e renders, once scan()
\* has returned kind in state s: if the index has the room, or gets it from
\* the C heap in this call.
ParsedAs(s, kind, e, c, ok) ==
  Let(attr_count(s, c, ok), LAMBDA a :
    (Len(e.attrs) <= s.attr_index_len \/ (ok /\ s.attr_count < 0)) =>
      /\ ~a.s.failed
      /\ kind = (IF e.close = <<">">> THEN HEAD ELSE ELEM)
      /\ a.ret = Len(e.attrs)
      /\ tag(a.s, c, ok).ret = e.tag
      /\ \A i \in 1..Len(e.attrs) :
           /\ attr_name(a.s, i - 1, c, ok).ret = e.attrs[i].name
           /\ attr_value(a.s, i - 1, c, ok).ret = unescape(e.attrs[i].value))

(***************************************************************************)
(* C21.  As claimed: on a well-formed line that scan() calls HEAD or ELEM, *)
(* attr_count() is the number of name='value' pairs, tag() the name before *)
(* the first space, attr_name(i) the i-th name and attr_value(i) the i-th  *)
(* value with its escapes decoded; the line <task level='high &amp;        *)
(* mighty' name='&lt;init&gt;'> is HEAD, its tag task, its 2 attributes    *)
(* level, 'high & mighty', and name, '<init>'.                             *)
(***************************************************************************)
C21_AttributeParsing ==
  (~st.failed /\ rest # <<>> /\ LineData(rest) \in ElemLines) =>
    \A c \in PreloadChunks(st), ok1 \in PreloadOks(st), ok \in BOOLEAN :
      Let(scan(call(st), c, ok1), LAMBDA k :
        (~k.s.failed /\ ~definitely_done(k.s) /\ k.ret \in {HEAD, ELEM}) =>
          /\ ParsedAs(k.s, k.ret, ElemOf(LineData(rest)), c, ok)
          /\ LineData(rest) = Render(TaskElem) =>
               /\ k.ret = HEAD
               /\ attr_count(k.s, c, ok).ret = 2
               /\ tag(k.s, c, ok).ret = <<"t", "a", "s", "k">>
               /\ attr_name(k.s, 0, c, ok).ret = <<"l", "e", "v", "e", "l">>
               /\ attr_value(k.s, 0, c, ok).ret = <<"h", "i", "g", "h", " ", "&", " ", "m", "i", "g", "h", "t", "y">>
               /\ attr_name(k.s, 1, c, ok).ret = <<"n", "a", "m", "e">>
               /\ attr_value(k.s, 1, c, ok).ret = <<"<", "i", "n", "i", "t", ">">>)


(***************************************************************************)
(* C22.  As claimed: on any line that scan() calls HEAD or ELEM, for every *)
(* i with 0 <= i < attr_count(), attr_index(attr_name(i)) = i, also where  *)
(* two attributes of the line have the same name.                          *)
(***************************************************************************)
C22_AttrIndex ==
  ~st.failed =>
    \A c \in PreloadChunks(st), ok1 \in PreloadOks(st), ok \in BOOLEAN :
      Let(scan(call(st), c, ok1), LAMBDA k :
      Let(attr_count(k.s, c, ok), LAMBDA a :
        (~a.s.failed /\ k.ret \in {HEAD, ELEM}) =>
          \A i \in 0..(a.ret - 1) :
            attr_index(a.s, attr_name(a.s, i, c, ok).ret, c, ok).ret = i))

(***************************************************************************)
(* C22, amended.  On any line that scan() calls HEAD or ELEM, for every i  *)
(* with 0 <= i < attr_count(), attr_index(attr_name(i)) is the index of    *)
(* the first attribute of the line whose name is attr_name(i): it is i     *)
(* unless an earlier attribute has the same name.                          *)
(***************************************************************************)
C22_AttrIndexFirst ==
  ~st.failed =>
    \A c \in PreloadChunks(st), ok1 \in PreloadOks(st), ok \in BOOLEAN :
      Let(scan(call(st), c, ok1), LAMBDA k :
      Let(attr_count(k.s, c, ok), LAMBDA a :
        (~a.s.failed /\ k.ret \in {HEAD, ELEM}) =>
          \A i \in 0..(a.ret - 1) :
            attr_index(a.s, attr_name(a.s, i, c, ok).ret, c, ok).ret
              = SetMin({j \in 0..i : attr_name(a.s, j, c, ok).ret
                                       = attr_name(a.s, i, c, ok).ret})))

\* Two attributes of one name have been parsed, and the name is looked up.
C22_Witness ==
  /\ ~st.failed /\ ~need_scan(st) /\ definite_kind(st) \in {HEAD, ELEM}
  /\ last.op = "attr_count" /\ st.attr_count >= 2
  /\ attr_name(st, 0, 1, TRUE).ret = attr_name(st, 1, 1, TRUE).ret
  /\ attr_index(st, attr_name(st, 1, 1, TRUE).ret, 1, TRUE).ret = 0


SaneName(name) ==
  /\ name # <<>>
  /\ is_sane_xml_name_start(name[1])
  /\ \A i \in 1..Len(name) : name[i] \notin NameExclusions

\* Lines with an attribute of a name that is not sane, and the number of
\* attributes before it.
BadNameLines ==
  {[line |-> <<"<", "a", " ", "1", "=", "'", "x", "'", ">">>, before |-> 0],
   [line |-> <<"<", "a", " ", "&", "b", "=", "'", "x", "'", ">">>, before |-> 0],
   [line |-> <<"<", "a", " ", "b", "=", "'", "x", "'", " ", "?", "c", "=", "'", "y", "'", ">">>, before |-> 1],
   [line |-> <<"<", "a", " ", "b", "/", "c", "=", "'", "x", "'", ">">>, before |-> 0],
   [line |-> <<"<", "a", " ", "b", "'", "c", "=", "'", "x", "'", ">">>, before |-> 0]}

(***************************************************************************)
(* C28.  As claimed: an attribute whose name does not start with an ASCII  *)
(* letter or underscore, or whose name holds one of & < > " ' = ? /, is    *)
(* not added to the index: error_offset is set and parsing stops there.    *)
(***************************************************************************)
C28_RejectsBadNames ==
  ~st.failed =>
    \A c \in PreloadChunks(st), ok1 \in PreloadOks(st), ok \in BOOLEAN :
      Let(scan(call(st), c, ok1), LAMBDA k :
      Let(attr_count(k.s, c, ok), LAMBDA a :
        (~a.s.failed /\ k.ret \in {HEAD, ELEM}) =>
          /\ \A i \in 0..(a.ret - 1) : SaneName(attr_name(a.s, i, c, ok).ret)
          /\ \A b \in BadNameLines :
               LineData(rest) = b.line => (a.ret = b.before /\ a.s.error_offset # 0)))

\* What a call stored, a char* as the string it points at.
Stored(s, out) ==
  [i \in 1..Len(out) |-> IF out[i].t = "ptr" THEN PtrString(s, out[i].v) ELSE out[i].v]

\* The value of the first attribute called name, NullPtr if there is none.
ValueOf(s, name) == attr_value(s, attr_index(s, name, 1, TRUE).ret, 1, TRUE).ret

NameAttr ==
  <<"n", "a", "m", "e">>

CommaValue ==
  <<"a", ",", "b", ",", "c", ",", "d">>

\* C26: for the attribute value a,b,c,d and the value pattern %p,%p,%p the
\* match succeeds and the three stored pointers point at a,b,c,d, at b,c,d
\* and at c,d: each %p stops before the comma and the literal consumes it.
C26_Prematch ==
  (/\ ~st.failed /\ last.op = "scan_elem" /\ last.chars = CommaPattern
   /\ ValueOf(st, NameAttr) = CommaValue)
    => /\ last.ret
       /\ Stored(st, last.out)
            = <<CommaValue, SubSeq(CommaValue, 3, 7), SubSeq(CommaValue, 5, 7)>>


\* C24: the total pattern *? name?='%n%p' returns true on every line and
\* stores the index of the attribute called name and a pointer to its value,
\* or -1 and a null pointer if the line has none; the pattern * name='%n%p'
\* returns true exactly when the attribute exists, and stores nothing when
\* it returns false.
C24_TotalMatch ==
  (last.op = "scan_elem" /\ last.next_attr0 = 0) =>
    /\ last.chars = TotalPattern =>
         /\ ~st.failed
         /\ last.ret
         /\ Stored(st, last.out)
              = <<attr_index(st, NameAttr, 1, TRUE).ret, ValueOf(st, NameAttr)>>
    /\ last.chars = PartialPattern =>
         /\ ~st.failed
         /\ last.ret <=> attr_index(st, NameAttr, 1, TRUE).ret >= 0
         /\ last.ret => Stored(st, last.out)
                          = <<attr_index(st, NameAttr, 1, TRUE).ret,
                              ValueOf(st, NameAttr)>>
         /\ ~last.ret => last.out = <<>>

\* C25: with one required and three optional sequential attributes and
\* next_attr 1 at the call, scan_elem returns true exactly when attr_count()
\* is at least 2, and next_attr has then advanced by 4 and the name of
\* attribute 1 and the index 4, or -1 if there is no attribute 4, are stored;
\* when it returns false next_attr has advanced by 1 on a markup line and by
\* 0 on a TEXT line.
C25_SequentialCursor ==
  (last.op = "scan_elem" /\ last.chars = SequentialPattern /\ last.next_attr0 = 1) =>
    /\ ~st.failed
    /\ last.ret <=> attr_count(st, 1, TRUE).ret >= 2
    /\ last.ret =>
         /\ last.next_attr = last.next_attr0 + 4
         /\ Stored(st, last.out)
              = <<attr_name(st, 1, 1, TRUE).ret,
                  IF 4 < attr_count(st, 1, TRUE).ret THEN 4 ELSE 0 - 1>>
    /\ (~last.ret /\ definite_kind(st) \in {HEAD, TAIL, ELEM}) =>
         last.next_attr = last.next_attr0 + 1
    /\ (~last.ret /\ definite_kind(st) = TEXT) => last.next_attr = last.next_attr0

\* The formats of WellFormedPatterns whose attribute names are all sequential.
SequentialPatterns == {SequentialPattern, TagPattern, AnyAttrPattern}

\* C27: a malformed format never makes scan_elem return true, the call aborts
\* or returns false; a well formed format that does not match the line
\* returns false without aborting.
C27_MalformedPattern ==
  last.op = "scan_elem" =>
    /\ last.chars \in MalformedPatterns => (st.failed \/ ~last.ret)
    /\ (/\ last.chars \in WellFormedPatterns
        /\ last.next_attr0 = 0 \/ last.chars \in SequentialPatterns
        /\ ~last.ret) => ~st.failed

(***************************************************************************)
(* C31.  As claimed: the capacity is always 0, the small embedded size, or *)
(* at least BIG_SIZE.                                                      *)
(***************************************************************************)
C31_CapacitySchedule ==
  st.buffer_size \in {0, SMALL_SIZE} \/ st.buffer_size >= BIG_SIZE

\* The capacity one growth of a fill gives a full buffer of capacity n.
FillGrowth(n) ==
  IF n = 0 THEN SMALL_SIZE
  ELSE IF n < BIG_SIZE THEN BIG_SIZE
  ELSE n + (n \div 2)

\* The capacities that fills alone reach from capacity n.
FillGrowths(n) ==
  {n, FillGrowth(n), FillGrowth(FillGrowth(n)),
   FillGrowth(FillGrowth(FillGrowth(n)))}

\* The buffer holds the pushed back bytes and the pending bytes and has no
\* room to spare but the one byte of a missing line ending.
ExactFit(s) == s.beg <= 1 /\ s.content_end >= s.buffer_size - 1

\* C31, amended: the capacity never decreases; a step without pushback_input
\* grows it only along the schedule of the fill (from 0 to the small size,
\* from below BIG_SIZE to BIG_SIZE, by 3/2 from BIG_SIZE on); a
\* pushback_input grows it along that schedule or to exactly the size it
\* needs, which may lie between the small size and BIG_SIZE.
C31_CapacityGrowth ==
  [][/\ st'.buffer_size >= st.buffer_size
     /\ npush' = npush => st'.buffer_size \in FillGrowths(st.buffer_size)
     /\ npush' # npush =>
          \/ st'.buffer_size \in FillGrowths(st.buffer_size)
          \/ ExactFit(st')]_vars

C31_Witness ==
  /\ last.op = "pushback_input" /\ ~st.failed /\ ~error(st)
  /\ st.kind = "string" /\ Len(pat) > SMALL_SIZE
  /\ st.buffer_size > Len(pat) + 1 /\ st.buffer_size < BIG_SIZE

\* The calls of prepare_to_fill_buffer that one fill_buffer makes: the state
\* before each and what it returned.
RECURSIVE fill_calls(_, _, _)
fill_calls(s, c, ok) ==
  IF s.failed \/ ~need_to_read(s) THEN <<>>
  ELSE Let(fill_step(s, c, ok), LAMBDA x :
         <<[pre |-> s, p |-> prepare_to_fill_buffer(s, ok)]>>
           \o (IF x.again THEN fill_calls(x.s, c, ok) ELSE <<>>))

\* The bytes of the partial line of s.
PartialLine(s) == [i \in 1..(s.end - s.beg) |-> s.buffer[s.beg + (i - 1)]]

\* A state in which a call of the stream fills the buffer.
Fills(s) == ~s.failed /\ ~definitely_done(s) /\ need_to_read(s)

(***************************************************************************)
(* C32.  Each prepare_to_fill_buffer of a fill grows the buffer only if    *)
(* beg = 0 and end = capacity before it; with no partial line it gives the *)
(* whole buffer from offset 0; a partial line at beg > 0 is moved to       *)
(* offset 0, bytes and order kept; unless the allocation failed the        *)
(* partial line is contiguous and the fill area starts right after it.     *)
(***************************************************************************)
C32_FillPolicy ==
  Fills(st) =>
    \A c \in Chunks(st), ok \in BOOLEAN :
      LET t == fill_calls(call(st), c, ok)
      IN \A i \in DOMAIN t :
           LET pre == t[i].pre
               p == t[i].p
           IN /\ ~p.s.failed
              /\ p.s.buffer_size # pre.buffer_size =>
                   pre.beg = 0 /\ pre.end = pre.buffer_size
              /\ pre.beg = pre.end =>
                   p.fill_offset = 0 /\ p.fill_length = p.s.buffer_size
              /\ ~error(p.s) =>
                   /\ PartialLine(p.s) = PartialLine(pre)
                   /\ p.fill_offset = p.s.end
                   /\ p.fill_offset + p.fill_length = p.s.buffer_size
                   /\ pre.beg > 0 => p.s.beg = 0

C32_Witness ==
  /\ Fills(st)
  /\ \E c \in Chunks(st) :
       LET t == fill_calls(call(st), c, TRUE)
       IN /\ \E i \in DOMAIN t :
               /\ t[i].pre.beg > 0 /\ t[i].pre.beg < t[i].pre.end
               /\ t[i].p.s.beg = 0
          /\ \E i \in DOMAIN t :
               /\ t[i].pre.buffer_size > 0
               /\ t[i].p.s.buffer_size > t[i].pre.buffer_size

(***************************************************************************)
(* C37.  Every read_input call of a fill is given a non-empty range        *)
(* [fill_offset, fill_offset + fill_length) inside the buffer that starts  *)
(* at the end of the partial line; the read leaves the partial line and    *)
(* the capacity as they were and delivers at most fill_length bytes.       *)
(***************************************************************************)
C37_ReadTarget ==
  Fills(st) =>
    \A c \in Chunks(st), ok \in BOOLEAN :
      LET t == fill_calls(call(st), c, ok)
      IN \A i \in DOMAIN t :
           LET p == t[i].p
           IN (~p.s.failed /\ ~error(p.s)) =>
                LET r == read_input(p.s, p.fill_offset, p.fill_length, c)
                IN /\ p.fill_length > 0
                   /\ p.fill_offset >= 0
                   /\ p.fill_offset + p.fill_length <= p.s.buffer_size
                   /\ p.fill_offset = p.s.end
                   /\ r.nr <= p.fill_length
                   /\ DOMAIN r.s.buffer = 0..(p.s.buffer_size - 1)
                   /\ PartialLine(r.s) = PartialLine(t[i].pre)

C37_Witness ==
  /\ Fills(st) /\ st.kind = "FileInput"
  /\ \E c \in Chunks(st) :
       LET t == fill_calls(call(st), c, TRUE)
       IN \E i \in DOMAIN t :
            /\ t[i].p.s.end > t[i].p.s.beg
            /\ t[i].p.fill_offset = t[i].p.s.end
            /\ read_input(t[i].p.s, t[i].p.fill_offset, t[i].p.fill_length, c).nr > 0

\* The stream after j calls of next(), the allocations succeeding, and a
\* current_line() that loads the line if none is loaded.
RECURSIVE Nexts(_, _, _)
Nexts(s, j, c) ==
  IF j = 0 THEN current_line(call(s), c, TRUE).s
  ELSE Nexts(next(call(s), c, TRUE).s, j - 1, c)

\* The bytes of chars after its last LF.
RECURSIVE AfterLastLF(_)
AfterLastLF(chars) ==
  IF HasLF(chars) THEN AfterLastLF(DropFirstLine(chars)) ELSE chars

Report(s, c) ==
  Let(scan(s, c, TRUE), LAMBDA k :
  Let(attr_count(k.s, c, TRUE), LAMBDA a :
    [s |-> a.s,
     failed |-> a.s.failed,
     kind |-> k.ret,
     tag |-> tag(a.s, c, TRUE).ret,
     count |-> a.ret,
     values |-> [i \in 1..a.ret |-> attr_value(a.s, i - 1, c, TRUE).ret]]))

\* What a report says of the line.
Said(r) == [kind |-> r.kind, tag |-> r.tag, count |-> r.count, values |-> r.values]

(***************************************************************************)
(* C40.  As claimed: on a line that is current, done() between two rounds  *)
(* of scan(), tag(), attr_count() and attr_value(i) leaves the kind, the   *)
(* tag, the attribute count and the attribute values of the second round   *)
(* those of the first.                                                     *)
(***************************************************************************)
C40_DonePure ==
  ~st.failed =>
    \A c \in PreloadChunks(st) :
      Let(Report(call(st), c), LAMBDA r1 :
        (~r1.failed /\ have_current_line(r1.s)) =>
          Let(xml_done(call(r1.s), c, TRUE), LAMBDA d :
          Let(Report(call(d.s), c), LAMBDA r2 :
            /\ ~d.ret
            /\ ~r2.failed
            /\ Said(r2) = Said(r1))))

\* The same with the second round made right after the first, no done().
C40_RescanPure ==
  ~st.failed =>
    \A c \in PreloadChunks(st) :
      Let(Report(call(st), c), LAMBDA r1 :
        (~r1.failed /\ have_current_line(r1.s)) =>
          Let(Report(call(r1.s), c), LAMBDA r2 :
            ~r2.failed /\ Said(r2) = Said(r1)))

\* What a round of scan(), tag(), attr_count() and attr_value(i) says in
\* state s and what it says of the current line of s scanned afresh.
DescribesCurrentLine(s, c) ==
  Let(Report(call(s), c), LAMBDA r :
  Let(Report(call(reset_line_pointers(s)), c), LAMBDA fresh :
    (~fresh.failed /\ have_current_line(fresh.s)) =>
      ~r.failed /\ Said(r) = Said(fresh)))

(***************************************************************************)
(* C34.  As claimed: after a next() or a pushback_input on the stream of   *)
(* an xmlInput, before the current line or overwriting it, the next        *)
(* scan(), tag(), attr_count() and attr_value(i) say of the line what a    *)
(* scan of the bytes of the new current line says.                         *)
(***************************************************************************)
C34_ScanInvalidation ==
  (~st.failed /\ ~error(st) /\ last.op \in {"next", "pushback_input"}) =>
    \A c \in PreloadChunks(st) : DescribesCurrentLine(st, c)

\* The same after next() alone.
C34_AfterNext ==
  (~st.failed /\ ~error(st) /\ last.op = "next") =>
    \A c \in PreloadChunks(st) : DescribesCurrentLine(st, c)

\* The first line of r with its terminator.
FirstLineRaw(r) == IF HasLF(r) THEN SubSeq(r, 1, FirstLF(r)) ELSE r

\* current_line_length() bytes at current_line(), then current_line_ending().
LineWithEnding(s, c, ok) ==
  current_line_sized(s, c, ok).ret \o current_line_ending(s, c, ok).ret

(***************************************************************************)
(* C35.  As claimed: without pushback, in any chunking, the                *)
(* current_line_length() bytes of each line followed by its                *)
(* current_line_ending() are the bytes of the input from the end of the    *)
(* line before to the end of this line, so that all lines together are the *)
(* input; and the stream is done by itself only when no input is left.     *)
(***************************************************************************)
C35_Lossless ==
  PlainRead =>
    \A c \in Chunks(st), ok \in BOOLEAN :
      Let(current_line_sized(call(st), c, ok), LAMBDA l :
        /\ have_current_line(l.s) =>
             LineWithEnding(call(st), c, ok) = FirstLineRaw(rest)
        /\ (definitely_done(l.s) /\ ~error(l.s)) => rest = <<>>)

\* An input in which every CR is data, no LF following it.
NoCRLF(r) == \A i \in 1..Len(r) : r[i] = CR => (i < Len(r) /\ r[i + 1] # LF)

\* The same for the inputs in which no CR comes before an LF or last.
C35_LosslessNoCRLF ==
  (PlainRead /\ NoCRLF(pat)) =>
    \A c \in Chunks(st), ok \in BOOLEAN :
      Let(current_line_sized(call(st), c, ok), LAMBDA l :
        /\ have_current_line(l.s) =>
             LineWithEnding(call(st), c, ok) = FirstLineRaw(rest)
        /\ (definitely_done(l.s) /\ ~error(l.s)) => rest = <<>>)

(***************************************************************************)
(* C36.  With the C heap delivering and a source that gives 0 bytes once   *)
(* it is exhausted, the loop of done() and next() comes to done() = true   *)
(* without error, every fill_buffer in it having come to its end, after at *)
(* most as many calls of next() as the input has lines.                    *)
(***************************************************************************)
C36_Termination ==
  /\ <>(definitely_done(st) /\ ~error(st) /\ ~st.failed)
  /\ [](ntrue <= NumLines(pat))

C36_Witness ==
  /\ definitely_done(st) /\ ~error(st) /\ ~st.failed
  /\ last.op = "fill_buffer" /\ st.kind = "FileInput"
  /\ ntrue = 3 /\ NumLines(pat) = 3 /\ rest = <<>>

\* The current line of s is an empty line that CR LF ended.
EmptyCRLFLine(s) == have_current_line(s) /\ s.line_ending = 2 /\ s.beg = s.end - 1

(***************************************************************************)
(* C38.  As claimed: in every reachable state with a current line, the     *)
(* empty CR LF line included, a pushback_input of any bytes, before the    *)
(* line or overwriting it, the C heap delivering or not, passes all the    *)
(* assertions in it.                                                       *)
(***************************************************************************)
C38_PushbackAsserts ==
  (~st.failed /\ have_current_line(st)) =>
    \A chars \in PushStrings, ow \in BOOLEAN, ok \in BOOLEAN :
      ~pushback_input(call(st), chars, ow, FALSE, MaxChunk, ok).failed

\* The same for every current line but the empty CR LF line.
C38_PushbackAssertsElsewhere ==
  (~st.failed /\ have_current_line(st) /\ ~EmptyCRLFLine(st)) =>
    \A chars \in PushStrings, ow \in BOOLEAN, ok \in BOOLEAN :
      ~pushback_input(call(st), chars, ow, FALSE, MaxChunk, ok).failed

\* On the empty CR LF line a pushback before the line fails, whatever the
\* bytes, and one that overwrites it does not.
C38_EmptyCRLFLineFails ==
  (~st.failed /\ EmptyCRLFLine(st)) =>
    \A chars \in PushStrings, ow \in BOOLEAN, ok \in BOOLEAN :
      pushback_input(call(st), chars, ow, FALSE, MaxChunk, ok).failed = ~ow

\* The indices of chars that pushback_input(chars, length) reads, from 0:
\* chars[length-1] for partial_line, and memcpy reads chars[0 .. length-1].
pushback_reads(chars) == {Len(chars) - 1} \cup 0..(Len(chars) - 1)

\* Stream p has the current line, the line after it and the end that
\* stream s has.
SameLines(p, s, c) ==
  /\ ~p.failed
  /\ current_line(call(p), c, TRUE).ret = current_line(call(s), c, TRUE).ret
  /\ LineAfter(call(p), c) = LineAfter(call(s), c)
  /\ DoneAfter(call(p), c) = DoneAfter(call(s), c)

(***************************************************************************)
(* C39.  As claimed: the pushback_input calls of the round trip of the     *)
(* test, of the saved line and of its ending, read chars at indices 0 to   *)
(* length-1 only, also when length is 0; and a pushback_input of length 0  *)
(* made while a line is current leaves that line and the lines after it    *)
(* as they were, whatever the byte before chars is.                        *)
(***************************************************************************)
C39_ReadsInRange ==
  /\ last.op = "round_trip" =>
       \A chars \in {last.endl, last.copy} :
         pushback_reads(chars) \subseteq 0..(Len(chars) - 1)
  /\ (~st.failed /\ have_current_line(st)) =>
       \A u \in BOOLEAN, c \in Chunks(st) :
         SameLines(pushback_input(call(st), <<>>, FALSE, u, c, TRUE), st, c)

\* The reads are in range for every pushed string that is not empty.
C39_ReadsInRangeNonEmpty ==
  last.op = "round_trip" =>
    \A chars \in {last.endl, last.copy} \ {<<>>} :
      pushback_reads(chars) \subseteq 0..(Len(chars) - 1)

\* A pushback of length 0 leaves the lines as they were on every current
\* line but the empty CR LF line, and what the byte before chars is makes
\* no difference to the stream.
C39_EmptyPushbackElsewhere ==
  ~st.failed =>
    \A c \in Chunks(st) :
      /\ (have_current_line(st) /\ ~EmptyCRLFLine(st)) =>
           \A u \in BOOLEAN :
             SameLines(pushback_input(call(st), <<>>, FALSE, u, c, TRUE), st, c)
      /\ \A ow \in BOOLEAN :
           pushback_input(call(st), <<>>, ow, TRUE, c, TRUE)
             = pushback_input(call(st), <<>>, ow, FALSE, c, TRUE)

====
